---- MODULE Spec2Model ----
(***************************************************************************)
(* Agent Execution Core of claude-code-telegram.                           *)
(*                                                                         *)
(* Spec       : the Execution Facade (ClaudeIntegration.run_command and    *)
(*              shutdown) driving the cursor-agent supervisor              *)
(*              (CursorAgentManager.execute_command, kill_all_processes,   *)
(*              _graceful_cancel_process), one action per segment of code  *)
(*              between two suspension points (await) of the coroutines.   *)
(* SpecStream : one request's output loop                                  *)
(*              (CursorAgentManager._handle_process_output) feeding the    *)
(*              Facade's tool-validating sink (run_command.stream_handler) *)
(*              and the Facade's post-processing of the response.          *)
(* SpecSdk    : one request of the SDK supervisor                           *)
(*              (ClaudeSDKManager.execute_command).                        *)
(* SpecMonitor: the Tool Monitor (ToolMonitor.validate_tool_call), the SDK *)
(*              hook (SecurityHooks.pre_tool_use_hook) and the directory   *)
(*              change (handle_cd_callback).                               *)
(* SpecSession: run_command's session steps: get or create, execute,       *)
(*              commit.                                                    *)
(* SpecShutdown: Spec with two requests and shutdown.                      *)
(* SpecContinue: ClaudeIntegration.continue_session.                       *)
(* SpecBuffer : the output loop's message_buffer and tools_used.           *)
(* SpecCallback: the callback data of a project command, built, parsed     *)
(*              and routed.                                                *)
(* SpecProgress: the throttled edits of the two chat handlers'             *)
(*              stream_handler.                                            *)
(* SpecDelivery: the order in which one request's updates reach on_stream. *)
(* SpecCancel : CursorAgentManager._graceful_cancel_process and its        *)
(*              callers' loop.                                             *)
(* SpecUser   : the supervisor's per-user registry (user_processes,        *)
(*              cancelled_users) and kill_user_processes.                  *)
(* SpecTracking: tool_tracking shared by the requests of one supervisor.   *)
(* SpecConversations: the SDK supervisor's active_sessions under the       *)
(*              facade's runs.                                             *)
(***************************************************************************)
EXTENDS Integers, Sequences, FiniteSets, TLC

\* ------------------------------------------------------------------ bounds
MaxRuns == 3
MaxUsers == 2
MaxMsgs == 3
MaxShutdownRuns == 2
MaxCallIds == 2
MaxSdkMsgs == 3
MaxValidations == 2
MaxSessionRuns == 2
MaxLastUsed == 3
\* max_message_buffer (1000 in the source), small enough to be reached
MaxMessageBuffer == 2
MaxNameLen == 3

\* the child writes at most this many lines
MaxLines == 3

\* kill_all_processes cancels at most this many processes
MaxCancelCalls == 2

\* the supervisor runs at most this many child processes
MaxProcs == 2

\* the clock of the progress handlers runs this many tenths of a second
MaxClock == 16

\* requests in flight on one supervisor at a time
MaxRequests == 2

\* runs of the facade on the SDK supervisor
MaxSdkRuns == 2

Runs == 1..MaxRuns
Users == 1..MaxUsers
\* the killer id of ClaudeIntegration.shutdown (runs are their own killer id)
ShutdownId == 0
Killers == Runs \cup {ShutdownId}

VARIABLES
    \* ---- Facade / supervisor (Spec)
    pc,               \* run -> position of run_command
    user,             \* run -> user_id argument (0 before the call)
    err,              \* run -> exception run_command raised ("none" if none)
    prevTask,         \* run -> previous_task it awaits (0 if none)
    active_tasks,     \* ClaudeIntegration.active_tasks: user -> run owning the task (0 absent)
    tpc,              \* run -> position of its task (execute_wrapper/execute_command)
    tres,             \* run -> how the task ended
    cancelReq,        \* run -> task.cancel() was called and not yet delivered
    proc,             \* run -> state of the child process it spawned
    sig,              \* run -> strongest signal sent to its child
    active_processes, \* CursorAgentManager.active_processes, keys in insertion order
    kq,               \* killer -> process_ids still to visit in kill_all_processes
    kstage,           \* killer -> step of _graceful_cancel_process on Head(kq)
    spc,              \* position of ClaudeIntegration.shutdown
    \* ---- history (observations only, never read by the actions' guards)
    overlap,          \* run -> runs of the same user in progress when it was called
    foreignSig,       \* runs whose running child a run of another user signalled
    foreignUntrack,   \* runs whose running child a run of another user untracked
    \* ---- one request's output loop and the Facade's sink (SpecStream)
    conf,             \* config: claude_allowed_tools, claude_disallowed_tools
    sphase,           \* position of the request
    nread,            \* lines of the child's stdout consumed so far
    result,           \* the last result message: "none", "ok" or "error" (is_error)
    parsing_errors,   \* len(parsing_errors)
    tool_tracking,    \* CursorAgentManager.tool_tracking: call_id -> tool name
    span,             \* call_id -> state of the span last created for it
    tools_validated,  \* run_command.tools_validated
    validation_errors,\* len(validation_errors)
    blocked_tools,    \* run_command.blocked_tools
    return_code,      \* process.wait() (-1 before)
    sout,             \* how _handle_process_output ended ("none" before)
    resp,             \* the response run_command returns
    \* ---- history (observations only)
    critAt,           \* index of the line at which the sink raised ClaudeToolValidationError
    nonCritDenied,    \* a tool outside the critical list was denied
    sinkOther,        \* the sink raised another exception into the supervisor
    cbFailed,         \* the caller's on_stream raised inside the sink
    streamOpen,       \* call_ids started and not completed since, as the child wrote them
    orphans,          \* tool_tracking as it was at the end of the stream
    nMalformed,       \* lines the child wrote that are not JSON
    nInvalid,         \* JSON objects without "type" the child wrote
    knownOpen,        \* call_ids started with a tool type of TOOL_CALL_TYPES and not completed since
    nStray,           \* completed lines read for a call_id that was not tracked
    \* ---- one request of the SDK supervisor (SpecSdk)
    sdk_phase,        \* position of ClaudeSDKManager.execute_command
    messages,         \* the messages collected from client.receive_response()
    sdk_session_id,   \* the session_id argument ("" for None)
    sdk_out,          \* how execute_command ended ("none" before)
    sdk_response,     \* the ClaudeResponse it returned
    \* ---- the Tool Monitor, the SDK hooks and the cd callback (SpecMonitor)
    has_validator,    \* ToolMonitor.security_validator is set
    tool_usage,       \* ToolMonitor.tool_usage: tool -> count (0: no key)
    security_violations, \* len(ToolMonitor.security_violations)
    cd_validator,     \* bot_data holds a "security_validator"
    current_directory,\* user_data["current_directory"], unset: the approved directory
    \* ---- history (observations only)
    ncalls,           \* validate_tool_call calls since the last reset_stats
    ndenied,          \* of these, the calls that returned (False, reason)
    last,             \* the last operation: its arguments and its outcome
    \* ---- run_command's session bookkeeping (SpecSession)
    sessions,         \* the ids under which the Session Store holds the user's sessions
    session,          \* the session object run_command got from the store
    held_as,          \* the id under which the store holds that session ("" before)
    agent_call,       \* what the run was given and what it hands to _execute
    rpc,              \* position of run_command
    response,         \* the response of the supervisor, then of run_command
    nruns,            \* run_command calls made so far
    \* ---- continue_session (SpecContinue)
    user_sessions,    \* the sessions the store holds for the user
    cs_wd,            \* the working_directory argument
    cs_out,           \* what continue_session returned ("none" before)
    cs_runs,          \* the session_id arguments of the run_command calls it made
    \* ---- the message buffer of one request (SpecBuffer)
    message_buffer,   \* _handle_process_output: message_buffer (a deque)
    message_count,    \* _handle_process_output: message_count
    b_read,           \* lines of the child's stdout consumed so far
    b_result,         \* the last result message: "none", "ok" or "error"
    b_phase,          \* position of the request
    tools_used,       \* tools_used of the response (names)
    emitted,          \* history: every message appended to the buffer, in order
    \* ---- callback data of a project command (SpecCallback)
    cmd_name,         \* ProjectCommand.name, as a sequence of characters
    cb_phase,         \* "built" once the button exists, "pressed" once it was handled
    callback_data,    \* the callback data of the button
    parsed,           \* what parse_callback_data made of it
    routed,           \* action and param of handle_callback_query
    \* ---- stream_handler of the two chat handlers
    mode,             \* "text" (handle_text_message) or "command" (project command)
    last_progress_text,\* the text of the last edit
    last_update_time, \* the time of the last edit, in tenths of a second
    now,              \* time.time(), in tenths of a second
    handled,          \* the last update handled: its type, text and what was decided
    \* ---- the output loop and the sinks of one request
    stdout,           \* the lines the child wrote and the loop has not read
    written,           \* the kinds of the lines the child wrote, in order
    closed,           \* the child closed its stdout
    loop_pc,          \* the output loop: "read", "done" or "cancelled"
    stage,            \* line -> "none", "validate", "render", "done", "aborted": its update in the sinks
    delivered,        \* the lines whose update on_stream was invoked for, in order
    \* ---- one call of _graceful_cancel_process
    g_pc,             \* "try_int", "wait_int", "try_term", "wait_term", "try_kill", "wait_kill", "returned", "raised"
    g_calls,           \* the calls the loop of kill_all_processes has made
    child,             \* the child process itself: "running" or "gone"
    returncode,       \* process.returncode: "none" or "set"
    attempts,         \* the signals tried, each send and each wait with what it did
    \* ---- the supervisor called with a user_id: execute_command, kill_user_processes
    u_pc,             \* process -> "idle", "streaming", "cancel", "ended", "done": its execute_command
    u_user,           \* process -> the user_id of its execute_command, 0 before
    u_child,          \* process -> "none", "alive", "exit_0", "exit_1"
    u_signalled,      \* the processes a signal was sent to
    u_result,         \* the processes whose result message was read
    u_out,            \* process -> how execute_command ended
    sup_active,       \* the keys of the supervisor's active_processes
    user_processes,   \* user -> the list of its process ids, <<>> when the key is absent
    cancelled_users,  \* user -> "absent", "false", "true"
    k_pc,             \* user -> kill_user_processes: "idle", "waiting", "returned"
    k_queue,          \* user -> the ids of the snapshot left to visit, the first being cancelled
    flagged,          \* the processes that were streaming when their user's flag was set
    snapshotted,      \* the processes a kill_user_processes took into its snapshot
    \* ---- two requests on one supervisor sharing tool_tracking (SpecTracking)
    t_pc,             \* position of each request in execute_command
    t_tracking,       \* the supervisor's tool_tracking: the <<request, call_id>> keys it holds
    t_span,           \* the span of each call of each request
    \* ---- runs of the facade on the SDK supervisor and its stored conversations (SpecConversations)
    a_pc,             \* position of each run in run_command
    a_sid,            \* the session_id execute_command of the run was called with
    a_prev,           \* len(previous_messages) of the run
    active_sessions,  \* ClaudeSDKManager.active_sessions: session id -> number of stored messages
    store_updated     \* runs for which the facade called session_manager.update_session

fvars == <<pc, user, err, prevTask, active_tasks, tpc, tres, cancelReq, proc, sig,
           active_processes, kq, kstage, spc, overlap, foreignSig,
           foreignUntrack>>

svars == <<conf, sphase, nread, result, parsing_errors, tool_tracking, span,
           tools_validated, validation_errors, blocked_tools, return_code, sout,
           resp, critAt, nonCritDenied, sinkOther, cbFailed, streamOpen, orphans,
           nMalformed, nInvalid, knownOpen, nStray>>

kvars == <<sdk_phase, messages, sdk_session_id, sdk_out, sdk_response>>

mvars == <<has_validator, tool_usage, security_violations, cd_validator,
           current_directory, ncalls, ndenied, last>>

nvars == <<sessions, session, held_as, agent_call, rpc, response, nruns>>

cvars == <<user_sessions, cs_wd, cs_out, cs_runs>>

bvars == <<message_buffer, message_count, b_read, b_result, b_phase, tools_used, emitted>>

dvars == <<cmd_name, cb_phase, callback_data, parsed, routed>>

pvars == <<mode, last_progress_text, last_update_time, now, handled>>

ovars == <<stdout, written, closed, loop_pc, stage, delivered>>

gvars == <<g_pc, g_calls, child, returncode, attempts>>

uvars == <<u_pc, u_user, u_child, u_signalled, u_result, u_out, sup_active, user_processes, cancelled_users, k_pc, k_queue, flagged, snapshotted>>

tvars == <<t_pc, t_tracking, t_span>>

avars == <<a_pc, a_sid, a_prev, active_sessions, store_updated>>

vars == <<fvars, svars, kvars, mvars, nvars, cvars, bvars, dvars, pvars, ovars, gvars, uvars, tvars, avars>>

\* the variables a step of one part leaves alone
nonFacade == <<svars, kvars, mvars, nvars, cvars, bvars, dvars, pvars, ovars, gvars, uvars, tvars, avars>>

nonStream == <<fvars, kvars, mvars, nvars, cvars, bvars, dvars, pvars, ovars, gvars, uvars, tvars, avars>>

nonSdk == <<fvars, svars, mvars, nvars, cvars, bvars, dvars, pvars, ovars, gvars, uvars, tvars, avars>>

nonMonitor == <<fvars, svars, kvars, nvars, cvars, bvars, dvars, pvars, ovars, gvars, uvars, tvars, avars>>

nonSession == <<fvars, svars, kvars, mvars, cvars, bvars, dvars, pvars, ovars, gvars, uvars, tvars, avars>>

nonContinue == <<fvars, svars, kvars, mvars, nvars, bvars, dvars, pvars, ovars, gvars, uvars, tvars, avars>>

nonBuffer == <<fvars, svars, kvars, mvars, nvars, cvars, dvars, pvars, ovars, gvars, uvars, tvars, avars>>

nonCallback == <<fvars, svars, kvars, mvars, nvars, cvars, bvars, pvars, ovars, gvars, uvars, tvars, avars>>

nonProgress == <<fvars, svars, kvars, mvars, nvars, cvars, bvars, dvars, ovars, gvars, uvars, tvars, avars>>

nonDelivery == <<fvars, svars, kvars, mvars, nvars, cvars, bvars, dvars, pvars, gvars, uvars, tvars, avars>>

nonCancel == <<fvars, svars, kvars, mvars, nvars, cvars, bvars, dvars, pvars, ovars, uvars, tvars, avars>>

nonUser == <<fvars, svars, kvars, mvars, nvars, cvars, bvars, dvars, pvars, ovars, gvars, tvars, avars>>

nonTracking == <<fvars, svars, kvars, mvars, nvars, cvars, bvars, dvars, pvars, ovars, gvars, uvars, avars>>

nonConversations == <<fvars, svars, kvars, mvars, nvars, cvars, bvars, dvars, pvars, ovars, gvars, uvars, tvars>>

\* ------------------------------------------------------------------ helpers
Range(s) == {s[i] : i \in 1..Len(s)}

RECURSIVE Remove(_, _)
Remove(s, x) ==
    IF s = <<>> THEN <<>>
    ELSE IF Head(s) = x THEN Remove(Tail(s), x)
    ELSE <<Head(s)>> \o Remove(Tail(s), x)

\* asyncio.Task.done()
TaskDone(r) == tpc[r] = "done"

\* a run_command call that has been made and has neither returned nor raised
InProgress(r) == pc[r] \notin {"idle", "returned", "raised"}

\* ------------------------------------------------- stream: lines, config, sink
CallIds == 1..MaxCallIds

Requests == 1..MaxRequests

SdkRuns == 1..MaxSdkRuns

\* the session ids a caller hands to the SDK supervisor ("": none)
SdkSessionIds == {"s1", "s2"}

\* settings.approved_directory, as path segments below the filesystem root
ApprovedDirectory == <<"home", "app">>

\* A path string: absolute or relative, and its segments.  "out" names a
\* symbolic link /home/app/out -> /etc; "app2" is a sibling of the approved
\* directory whose name starts with the approved directory's name.
NoPath == [abs |-> FALSE, segs |-> <<>>]

Paths ==
    {NoPath,
     [abs |-> FALSE, segs |-> <<"proj">>],
     [abs |-> FALSE, segs |-> <<"..", "..", "etc">>],
     [abs |-> FALSE, segs |-> <<"..", "app2">>],
     [abs |-> FALSE, segs |-> <<"out">>],
     [abs |-> TRUE, segs |-> <<"etc">>],
     [abs |-> TRUE, segs |-> <<"home", "app", "proj">>]}

\* A shell command, as the sequence of the pieces the patterns are made of;
\* consecutive pieces are adjacent in the command string.
ForkBomb == ":(){ :|:& };:"

Commands ==
    {<<>>, <<"ls">>, <<"sudo", "ls">>, <<"SUDO", "ls">>, <<"rm", "-rf", "/">>,
     <<"chmod", "777", "/">>, <<"chmod", "777", "proj">>, <<"mkfs">>,
     <<"dd", "if=">>, <<">", "/dev/sd", "a">>, <<">", "/dev/sd", "b">>,
     <<ForkBomb>>}

\* str.lower() on one piece
LowerPiece(a) == IF a = "SUDO" THEN "sudo" ELSE a

Lower(cmd) == [i \in 1..Len(cmd) |-> LowerPiece(cmd[i])]

\* pattern in command (substring)
Contains(cmd, pat) ==
    \E i \in 0..(Len(cmd) - Len(pat)) :
        \A j \in 1..Len(pat) : cmd[i + j] = pat[j]

\* dangerous_patterns of ToolMonitor.validate_tool_call
MonitorPatterns == {<<"sudo">>, <<"rm", "-rf", "/">>, <<"chmod", "777">>}

\* dangerous_patterns of SecurityHooks.pre_tool_use_hook
HookPatterns ==
    {<<"sudo">>, <<"rm", "-rf", "/">>, <<"chmod", "777", "/">>, <<"mkfs">>,
     <<"dd", "if=">>, <<">", "/dev/sd", "a">>, <<ForkBomb>>}

\* The input of a tool call: JSON null in place of the object, or an object
\* with a path ("path" or "file_path"; NoPath when absent or empty) and a
\* command (<<>> when absent or empty).
OkInput == [null |-> FALSE, file_path |-> [abs |-> FALSE, segs |-> <<"proj">>],
            command |-> <<"ls">>]

BadInput == [null |-> FALSE, file_path |-> NoPath, command |-> <<"sudo", "ls">>]

NullInput == [null |-> TRUE, file_path |-> NoPath, command |-> <<>>]

\* the inputs the lines of one request carry
Inputs == {OkInput, BadInput, NullInput}

\* ---- the path rule (Path.resolve, then containment in the approved directory)
IsPrefix(a, b) == Len(a) <= Len(b) /\ SubSeq(b, 1, Len(a)) = a

\* one step of resolution: ".." goes to the parent, the symbolic link to its target
Step(cur, seg) ==
    IF seg = ".." THEN (IF cur = <<>> THEN <<>> ELSE SubSeq(cur, 1, Len(cur) - 1))
    ELSE IF Append(cur, seg) = <<"home", "app", "out">> THEN <<"etc">>
    ELSE Append(cur, seg)

RECURSIVE ResolveFrom(_, _)
ResolveFrom(cur, segs) ==
    IF segs = <<>> THEN cur ELSE ResolveFrom(Step(cur, Head(segs)), Tail(segs))

\* (base / path).resolve(): an absolute path replaces the base
Resolve(p, base) == ResolveFrom(IF p.abs THEN <<>> ELSE base, p.segs)

\* SecurityValidator.validate_path(path, base): valid iff the resolved path is
\* the approved directory or below it
ValidatePath(p, base) == IsPrefix(ApprovedDirectory, Resolve(p, base))

\* The lines the child can write, by what the output loop makes of them:
\* blank; not JSON; a JSON object with no "type"; thinking; assistant with at
\* most one tool_use block;
\* tool_call started/completed with one of TOOL_CALL_TYPES ("read", "shell") or
\* with none of them ("unknown"); result.
Lines ==
    {[type |-> "blank"], [type |-> "malformed"], [type |-> "no_type"],
     [type |-> "thinking"]}
    \cup [type : {"result"}, is_error : BOOLEAN]
    \cup {[type |-> "assistant", tool |-> "none", input |-> OkInput]}
    \cup [type : {"assistant"}, tool : {"Read", "Bash"}, input : Inputs]
    \cup [type : {"tool_call"}, subtype : {"started", "completed"}, call_id : CallIds,
          tool : {"read", "unknown"}, input : {OkInput}]
    \cup [type : {"tool_call"}, subtype : {"started", "completed"}, call_id : CallIds,
          tool : {"shell"}, input : Inputs]

\* claude_allowed_tools (empty: no allow-list) and claude_disallowed_tools
Configs == [allowed : {{}, {"Read", "read"}, {"Bash", "shell"}},
            disallowed : {{}, {"Bash", "shell"}}]

DefaultConf == [allowed |-> {}, disallowed |-> {}]

\* the tool names of the three checks of ToolMonitor.validate_tool_call that
\* the lines can carry, and the facade's critical list
FileTools == {"create_file", "edit_file", "read_file", "Write", "Edit", "Read"}

ShellTools == {"bash", "shell", "Bash"}

CriticalTools == {"Task", "Read", "Write", "Edit"}

\* the contrary behaviour, for comparison: an empty allow-list allows nothing
ListVerdictEmptyAllowsNothing(c, tool) ==
    IF tool \notin c.allowed THEN "not_allowed"
    ELSE IF tool \in c.disallowed THEN "disallowed"
    ELSE "ok"

\* the allow-list and deny-list checks, the first two of validate_tool_call
\* and of pre_tool_use_hook: an empty list is falsy and skips its check
ListVerdict(c, tool) ==
    IF c.allowed # {} /\ tool \notin c.allowed THEN "not_allowed"
    ELSE IF c.disallowed # {} /\ tool \in c.disallowed THEN "disallowed"
    ELSE "ok"

\* ToolMonitor.validate_tool_call for a monitor with config c, with (v) or
\* without a security validator: "ok", the reason of the denial, or "raise"
\* when tool_input.get is called on a null input (AttributeError)
ValidateToolCall(c, v, tool, input, working_directory) ==
    IF ListVerdict(c, tool) # "ok" THEN ListVerdict(c, tool)
    ELSE IF tool \in FileTools
         THEN (IF input.null THEN "raise"
               ELSE IF input.file_path = NoPath THEN "path_required"
               ELSE IF v /\ ~ValidatePath(input.file_path, working_directory)
                    THEN "invalid_path"
               ELSE "ok")
    ELSE IF tool \in ShellTools
         THEN (IF input.null THEN "raise"
               ELSE IF \E pat \in MonitorPatterns : Contains(Lower(input.command), pat)
                    THEN "dangerous"
               ELSE "ok")
    ELSE "ok"

\* SecurityHooks.pre_tool_use_hook: "ok" ({}: approve), the reason of the
\* denial, or "raise" on a null tool_input
PreToolUseHook(c, tool, input, working_directory) ==
    IF ListVerdict(c, tool) # "ok" THEN ListVerdict(c, tool)
    ELSE IF tool \in FileTools
         THEN (IF input.null THEN "raise"
               ELSE IF input.file_path = NoPath THEN "path_required"
               ELSE IF ~ValidatePath(input.file_path, working_directory)
                    THEN "invalid_path"
               ELSE "ok")
    ELSE IF tool \in ShellTools
         THEN (IF input.null THEN "raise"
               ELSE IF input.command = <<>> THEN "command_required"
               ELSE IF \E pat \in HookPatterns : Contains(Lower(input.command), pat)
                    THEN "dangerous"
               ELSE "ok")
    ELSE "ok"

InitStream(c) ==
    /\ conf = c
    /\ sphase = "reading"
    /\ nread = 0
    /\ result = "none"
    /\ parsing_errors = 0
    /\ tool_tracking = <<>>
    /\ span = [i \in CallIds |-> "none"]
    /\ tools_validated = TRUE
    /\ validation_errors = 0
    /\ blocked_tools = {}
    /\ return_code = -1
    /\ sout = "none"
    /\ resp = [is_error |-> FALSE, error_type |-> "none"]
    /\ critAt = 0
    /\ nonCritDenied = FALSE
    /\ sinkOther = FALSE
    /\ cbFailed = FALSE
    /\ streamOpen = {}
    /\ orphans = {}
    /\ nMalformed = 0
    /\ nInvalid = 0
    /\ knownOpen = {}
    /\ nStray = 0

InitSdk(sid) ==
    /\ sdk_phase = "streaming"
    /\ messages = <<>>
    /\ sdk_session_id = sid
    /\ sdk_out = "none"
    /\ sdk_response = [session_id |-> "", is_error |-> FALSE]

\* the tool names the monitor and the hooks are called with
MonitorTools == {"Read", "Bash", "WebSearch"}

NoOp == [op |-> "none", tool |-> "", input |-> NullInput,
         working_directory |-> ApprovedDirectory, verdict |-> ""]

InitMonitor(v, w) ==
    /\ has_validator = v
    /\ tool_usage = [t \in MonitorTools |-> 0]
    /\ security_violations = 0
    /\ cd_validator = w
    /\ current_directory = ApprovedDirectory
    /\ ncalls = 0
    /\ ndenied = 0
    /\ last = NoOp

NoSession == [session_id |-> "", is_new_session |-> FALSE]

NoResponse == [session_id |-> "", is_error |-> FALSE]

\* the store holds nothing, or one session an earlier run left under id "A"
InitSession(stored) ==
    /\ sessions = stored
    /\ session = NoSession
    /\ held_as = ""
    /\ agent_call = [given |-> "", session_id |-> "", continue_session |-> FALSE]
    /\ rpc = "idle"
    /\ response = NoResponse
    /\ nruns = 0

InitContinue(stored) ==
    /\ user_sessions = stored
    /\ cs_wd = ""
    /\ cs_out = "none"
    /\ cs_runs = <<>>

InitBuffer ==
    /\ message_buffer = <<>>
    /\ message_count = 0
    /\ b_read = 0
    /\ b_result = "none"
    /\ b_phase = "reading"
    /\ tools_used = <<>>
    /\ emitted = <<>>

\* Optional[str]: None, or a string
None == [some |-> FALSE, str |-> <<>>]

Some(str) == [some |-> TRUE, str |-> str]

InitCallback(name) ==
    /\ cmd_name = name
    /\ cb_phase = "idle"
    /\ callback_data = <<>>
    /\ parsed = None
    /\ routed = [action |-> <<>>, param |-> None]

\* update_interval = 1.5 of handle_text_message, in tenths of a second
UpdateInterval == 15

\* the 0.8 seconds of handle_project_command_callback, in tenths of a second
CommandInterval == 8

\* time.time() when the request starts: far more than an interval after time 0.0
StartTime == UpdateInterval + CommandInterval

NoUpdate == [type |-> "none", text |-> <<>>, differs |-> FALSE, since |-> 0, edit |-> "none"]

InitProgress(m) ==
    /\ mode = m
    /\ last_progress_text = IF m = "text" THEN None ELSE Some(<<>>)
    /\ last_update_time = 0
    /\ now = StartTime
    /\ handled = NoUpdate

InitDelivery ==
    /\ stdout = <<>>
    /\ written = <<>>
    /\ closed = FALSE
    /\ loop_pc = "read"
    /\ stage = [i \in 1..MaxLines |-> "none"]
    /\ delivered = <<>>

InitCancel(rc) ==
    /\ g_pc = "try_int"
    /\ g_calls = 1
    /\ child = IF rc = "none" THEN "running" ELSE "gone"
    /\ returncode = rc
    /\ attempts = <<>>

Procs == 1..MaxProcs

\* ClaudeSDKManager.__init__: no stored conversation; no run has started.
InitConversations ==
    /\ a_pc = [r \in SdkRuns |-> "idle"]
    /\ a_sid = [r \in SdkRuns |-> ""]
    /\ a_prev = [r \in SdkRuns |-> 0]
    /\ active_sessions = <<>>
    /\ store_updated = {}

\* CursorAgentManager.__init__: one tool_tracking dict for the supervisor; no
\* request has started.
InitTracking ==
    /\ t_pc = [r \in Requests |-> "idle"]
    /\ t_tracking = {}
    /\ t_span = [r \in Requests |-> [c \in CallIds |-> "none"]]

InitUser ==
    /\ u_pc = [p \in Procs |-> "idle"]
    /\ u_user = [p \in Procs |-> 0]
    /\ u_child = [p \in Procs |-> "none"]
    /\ u_signalled = {}
    /\ u_result = {}
    /\ u_out = [p \in Procs |-> "none"]
    /\ sup_active = {}
    /\ user_processes = [u \in Users |-> <<>>]
    /\ cancelled_users = [u \in Users |-> "absent"]
    /\ k_pc = [u \in Users |-> "idle"]
    /\ k_queue = [u \in Users |-> <<>>]
    /\ flagged = {}
    /\ snapshotted = {}

InitFacade ==
    /\ pc = [r \in Runs |-> "idle"]
    /\ user = [r \in Runs |-> 0]
    /\ err = [r \in Runs |-> "none"]
    /\ prevTask = [r \in Runs |-> 0]
    /\ active_tasks = [u \in Users |-> 0]
    /\ tpc = [r \in Runs |-> "none"]
    /\ tres = [r \in Runs |-> "none"]
    /\ cancelReq = [r \in Runs |-> FALSE]
    /\ proc = [r \in Runs |-> "none"]
    /\ sig = [r \in Runs |-> "none"]
    /\ active_processes = <<>>
    /\ kq = [k \in Killers |-> <<>>]
    /\ kstage = [k \in Killers |-> "none"]
    /\ spc = "idle"
    /\ overlap = [r \in Runs |-> {}]
    /\ foreignSig = {}
    /\ foreignUntrack = {}

Init ==
    /\ InitFacade /\ InitConversations
    /\ InitTracking
    /\ InitUser
    /\ InitCancel("none")
    /\ InitDelivery
    /\ InitProgress("text")
    /\ InitCallback(<<>>)
    /\ InitBuffer
    /\ InitContinue({})
    /\ InitStream(DefaultConf) /\ InitSdk("")
    /\ InitMonitor(TRUE, TRUE) /\ InitSession({})

\* run_command, entry to the first await: cancel the user's unfinished task and
\* await it, else go on to await session_manager.get_or_create_session.
RunCall(r, u) ==
    /\ UNCHANGED nonFacade
    /\ pc[r] = "idle"
    /\ \A q \in Runs : q < r => pc[q] # "idle"
    /\ \A v \in Users : v < u => \E q \in Runs : user[q] = v
    /\ user' = [user EXCEPT ![r] = u]
    /\ overlap' = [overlap EXCEPT ![r] = {q \in Runs : user[q] = u /\ InProgress(q)}]
    /\ LET prev == active_tasks[u] IN
       IF prev # 0 /\ ~TaskDone(prev)
       THEN /\ cancelReq' = [cancelReq EXCEPT ![prev] = TRUE]
            /\ prevTask' = [prevTask EXCEPT ![r] = prev]
            /\ pc' = [pc EXCEPT ![r] = "await_prev"]
       ELSE /\ pc' = [pc EXCEPT ![r] = "get_session"]
            /\ UNCHANGED <<cancelReq, prevTask>>
    /\ UNCHANGED <<err, active_tasks, tpc, tres, proc, sig, active_processes, kq,
                   kstage, spc, foreignSig, foreignUntrack>>

\* `await previous_task` returns or raises (both swallowed); next await is the
\* session store. The task's done-callbacks run in the order they were added:
\* the run that created the task awaited it first and is resumed first.
PrevAwaited(r) ==
    /\ UNCHANGED nonFacade
    /\ pc[r] = "await_prev"
    /\ TaskDone(prevTask[r])
    /\ pc[prevTask[r]] # "await_task"
    /\ pc' = [pc EXCEPT ![r] = "get_session"]
    /\ UNCHANGED <<user, err, prevTask, active_tasks, tpc, tres, cancelReq, proc, sig,
                   active_processes, kq, kstage, spc, overlap, foreignSig, foreignUntrack>>

\* get_or_create_session returned: create the task, record it, await it.
TaskCreate(r) ==
    /\ UNCHANGED nonFacade
    /\ pc[r] = "get_session"
    /\ tpc' = [tpc EXCEPT ![r] = "starting"]
    /\ active_tasks' = [active_tasks EXCEPT ![user[r]] = r]
    /\ pc' = [pc EXCEPT ![r] = "await_task"]
    /\ UNCHANGED <<user, err, prevTask, tres, cancelReq, proc, sig, active_processes,
                   kq, kstage, spc, overlap, foreignSig, foreignUntrack>>

\* ---------------------------------------------- CursorAgentManager.execute_command
\* The task runs execute_wrapper -> _execute -> execute_command (no user_id is
\* passed, so user_processes and cancelled_users stay empty): the child is
\* spawned and registered, then the output loop is awaited under wait_for.
TaskSpawn(r) ==
    /\ UNCHANGED nonFacade
    /\ tpc[r] = "starting"
    /\ ~cancelReq[r]
    /\ proc' = [proc EXCEPT ![r] = "alive"]
    /\ active_processes' = Append(active_processes, r)
    /\ tpc' = [tpc EXCEPT ![r] = "streaming"]
    /\ UNCHANGED <<pc, user, err, prevTask, active_tasks, tres, cancelReq, sig, kq,
                   kstage, spc, overlap, foreignSig, foreignUntrack>>

\* The child ends: by itself with status 0 and a result, or with a failure; a
\* child that was sent a signal ends with a non-zero status.
ChildExit(r, kind) ==
    /\ UNCHANGED nonFacade
    /\ proc[r] = "alive"
    /\ kind = "ok" => sig[r] = "none"
    /\ proc' = [proc EXCEPT ![r] = IF kind = "ok" THEN "exited_ok" ELSE "exited_fail"]
    /\ UNCHANGED <<pc, user, err, prevTask, active_tasks, tpc, tres, cancelReq, sig,
                   active_processes, kq, kstage, spc, overlap, foreignSig, foreignUntrack>>

\* what _handle_process_output makes of the ended child
StreamOutcome(p) == IF p = "exited_ok" THEN "ok" ELSE "process_error"

\* end of stream and process.wait(): a response or ClaudeProcessError; the
\* finally block untracks the process.
TaskFinish(r) ==
    /\ UNCHANGED nonFacade
    /\ tpc[r] = "streaming"
    /\ ~cancelReq[r]
    /\ proc[r] \in {"exited_ok", "exited_fail"}
    /\ tres' = [tres EXCEPT ![r] = StreamOutcome(proc[r])]
    /\ tpc' = [tpc EXCEPT ![r] = "done"]
    /\ active_processes' = Remove(active_processes, r)
    /\ UNCHANGED <<pc, user, err, prevTask, active_tasks, cancelReq, proc, sig, kq,
                   kstage, spc, overlap, foreignSig, foreignUntrack>>

\* the guard of the timeout handler: kill only a process that is still tracked
TimeoutKills(r) == r \in Range(active_processes)

\* wait_for expires (except asyncio.TimeoutError): a tracked child is killed and
\* awaited; otherwise ClaudeTimeoutError is raised at once.
TaskTimeout(r) ==
    /\ UNCHANGED nonFacade
    /\ tpc[r] = "streaming"
    /\ ~cancelReq[r]
    /\ IF TimeoutKills(r) /\ proc[r] = "alive"
       THEN /\ sig' = [sig EXCEPT ![r] = "kill"]
            /\ tpc' = [tpc EXCEPT ![r] = "timeout_wait"]
            /\ UNCHANGED <<tres, active_processes>>
       ELSE /\ tres' = [tres EXCEPT ![r] = "timeout"]
            /\ tpc' = [tpc EXCEPT ![r] = "done"]
            /\ active_processes' = Remove(active_processes, r)
            /\ UNCHANGED sig
    /\ UNCHANGED <<pc, user, err, prevTask, active_tasks, cancelReq, proc, kq, kstage,
                   spc, overlap, foreignSig, foreignUntrack>>

\* the killed child was reaped: raise ClaudeTimeoutError, finally untracks.
TaskTimeoutReaped(r) ==
    /\ UNCHANGED nonFacade
    /\ tpc[r] = "timeout_wait"
    /\ ~cancelReq[r]
    /\ proc[r] \in {"exited_ok", "exited_fail"}
    /\ tres' = [tres EXCEPT ![r] = "timeout"]
    /\ tpc' = [tpc EXCEPT ![r] = "done"]
    /\ active_processes' = Remove(active_processes, r)
    /\ UNCHANGED <<pc, user, err, prevTask, active_tasks, cancelReq, proc, sig, kq,
                   kstage, spc, overlap, foreignSig, foreignUntrack>>

\* CancelledError is delivered at the task's suspension point: no except clause
\* of execute_command catches it, only the finally block runs (untrack).
TaskCancelled(r) ==
    /\ UNCHANGED nonFacade
    /\ tpc[r] \in {"starting", "streaming", "timeout_wait"}
    /\ cancelReq[r]
    /\ tres' = [tres EXCEPT ![r] = "cancelled"]
    /\ tpc' = [tpc EXCEPT ![r] = "done"]
    /\ cancelReq' = [cancelReq EXCEPT ![r] = FALSE]
    /\ active_processes' = Remove(active_processes, r)
    /\ UNCHANGED <<pc, user, err, prevTask, active_tasks, proc, sig, kq, kstage, spc,
                   overlap, foreignSig, foreignUntrack>>

\* ------------------------------------- kill_all_processes / _graceful_cancel_process
SigRank(x) == CASE x = "none" -> 0 [] x = "int" -> 1 [] x = "term" -> 2 [] x = "kill" -> 3

SigMax(a, b) == IF SigRank(a) >= SigRank(b) THEN a ELSE b

\* The loop of kill_all_processes runs without suspending over the snapshot's
\* ids that are no longer in active_processes (skipped by the `in` test) or whose
\* process has a returncode (_graceful_cancel_process then sends nothing).
RECURSIVE SkipDone(_)
SkipDone(q) ==
    IF q = <<>> THEN <<>>
    ELSE IF Head(q) \in Range(active_processes) /\ proc[Head(q)] = "alive" THEN q
    ELSE SkipDone(Tail(q))

\* killer k acts for a run of one user on the running child of another user's run
Foreign(k, p) == k # ShutdownId /\ user[k] # user[p] /\ InProgress(p) /\ proc[p] = "alive"

\* the ids kill_all_processes forgets when its loop is over: clear() drops them all
ClearedByKillAll == Range(active_processes)

\* kill_all_processes from the point where `q` is left to visit, up to its next
\* suspension: SIGINT to the next running child and wait, or, the loop over,
\* active_processes.clear() and user_processes.clear().
KillAllLoop(k, q) ==
    LET t == SkipDone(q) IN
    IF t = <<>>
    THEN /\ kq' = [kq EXCEPT ![k] = <<>>]
         /\ kstage' = [kstage EXCEPT ![k] = "none"]
         /\ active_processes' = SelectSeq(active_processes, LAMBDA x : x \notin ClearedByKillAll)
         /\ foreignUntrack' = foreignUntrack \cup {p \in ClearedByKillAll : Foreign(k, p)}
         /\ UNCHANGED <<sig, foreignSig>>
    ELSE /\ kq' = [kq EXCEPT ![k] = t]
         /\ kstage' = [kstage EXCEPT ![k] = "int"]
         /\ sig' = [sig EXCEPT ![Head(t)] = SigMax(@, "int")]
         /\ foreignSig' = foreignSig \cup {p \in {Head(t)} : Foreign(k, p)}
         /\ UNCHANGED <<active_processes, foreignUntrack>>

\* what the facade does once kill_all_processes is over, for killer k: a run
\* re-raises CancelledError (finally: drop its own active_tasks entry), shutdown
\* goes on to cleanup_expired_sessions.
AfterKillAll(k, over) ==
    IF k = ShutdownId
    THEN /\ spc' = IF over THEN "cleanup" ELSE "kill_all"
         /\ UNCHANGED <<pc, err, active_tasks>>
    ELSE /\ pc' = [pc EXCEPT ![k] = IF over THEN "raised" ELSE "kill_all"]
         /\ err' = [err EXCEPT ![k] = IF over THEN "cancelled" ELSE @]
         /\ active_tasks' = IF over /\ active_tasks[user[k]] = k
                             THEN [active_tasks EXCEPT ![user[k]] = 0]
                             ELSE active_tasks
         /\ UNCHANGED spc

\* the contrary behaviour, for comparison: kill() follows SIGINT at once
NextStrategyKill(strategy) == "kill"

\* the strategy that follows one: SIGINT is followed by terminate(),
\* terminate() by kill()
NextStrategy(strategy) == IF strategy = "int" THEN "term" ELSE "kill"

\* wait_for(process.wait(), 2.0) timed out on a child that is still running
\* (returncode is None): the next strategy is tried.
KillEscalate(k) ==
    /\ UNCHANGED nonFacade
    /\ kq[k] # <<>>
    /\ kstage[k] \in {"int", "term"}
    /\ proc[Head(kq[k])] = "alive"
    /\ LET s == NextStrategy(kstage[k]) IN
       /\ kstage' = [kstage EXCEPT ![k] = s]
       /\ sig' = [sig EXCEPT ![Head(kq[k])] = SigMax(@, s)]
    /\ UNCHANGED <<pc, user, err, prevTask, active_tasks, tpc, tres, cancelReq, proc,
                   active_processes, kq, spc, overlap, foreignSig, foreignUntrack>>

\* process.wait() returned: _graceful_cancel_process is over for this child and
\* the loop of kill_all_processes goes on.
KillReaped(k) ==
    /\ UNCHANGED nonFacade
    /\ kq[k] # <<>>
    /\ proc[Head(kq[k])] # "alive"
    /\ KillAllLoop(k, Tail(kq[k]))
    /\ AfterKillAll(k, SkipDone(Tail(kq[k])) = <<>>)
    /\ UNCHANGED <<user, prevTask, tpc, tres, cancelReq, proc, overlap>>

\* ------------------------------------------------ run_command after `await task`
\* the contrary behaviour, for comparison: run_command turning the supervisor's failure into a response
FacadeTranslates(t) == "none"

\* what run_command does with a failed task: the exception it lets through
FacadeRaises(t) == t

\* the task returned a response: finally drops the active_tasks entry if it is
\* still this task's; the response is post-processed and update_session awaited.
RunTaskOk(r) ==
    /\ UNCHANGED nonFacade
    /\ pc[r] = "await_task"
    /\ TaskDone(r)
    /\ tres[r] = "ok"
    /\ active_tasks' = IF active_tasks[user[r]] = r
                        THEN [active_tasks EXCEPT ![user[r]] = 0]
                        ELSE active_tasks
    /\ pc' = [pc EXCEPT ![r] = "update_session"]
    /\ UNCHANGED <<user, err, prevTask, tpc, tres, cancelReq, proc, sig,
                   active_processes, kq, kstage, spc, overlap, foreignSig, foreignUntrack>>

\* the task raised ClaudeTimeoutError or ClaudeProcessError: finally, then
\* `except Exception: ... raise`.
RunTaskFailed(r) ==
    /\ UNCHANGED nonFacade
    /\ pc[r] = "await_task"
    /\ TaskDone(r)
    /\ tres[r] \in {"timeout", "process_error"}
    /\ active_tasks' = IF active_tasks[user[r]] = r
                        THEN [active_tasks EXCEPT ![user[r]] = 0]
                        ELSE active_tasks
    /\ IF FacadeRaises(tres[r]) = "none"
       THEN /\ pc' = [pc EXCEPT ![r] = "update_session"]
            /\ UNCHANGED err
       ELSE /\ pc' = [pc EXCEPT ![r] = "raised"]
            /\ err' = [err EXCEPT ![r] = FacadeRaises(tres[r])]
    /\ UNCHANGED <<user, prevTask, tpc, tres, cancelReq, proc, sig, active_processes,
                   kq, kstage, spc, overlap, foreignSig, foreignUntrack>>

\* the task was cancelled: `except asyncio.CancelledError` awaits
\* manager.kill_all_processes(), then re-raises.
RunTaskCancelled(r) ==
    /\ UNCHANGED nonFacade
    /\ pc[r] = "await_task"
    /\ TaskDone(r)
    /\ tres[r] = "cancelled"
    /\ KillAllLoop(r, active_processes)
    /\ AfterKillAll(r, SkipDone(active_processes) = <<>>)
    /\ UNCHANGED <<user, prevTask, tpc, tres, cancelReq, proc, overlap>>

\* update_session returned: run_command returns the response.
RunReturn(r) ==
    /\ UNCHANGED nonFacade
    /\ pc[r] = "update_session"
    /\ pc' = [pc EXCEPT ![r] = "returned"]
    /\ UNCHANGED <<user, err, prevTask, active_tasks, tpc, tres, cancelReq, proc, sig,
                   active_processes, kq, kstage, spc, overlap, foreignSig, foreignUntrack>>

\* ---------------------------------------------------- ClaudeIntegration.shutdown
ShutdownCall ==
    /\ UNCHANGED nonFacade
    /\ spc = "idle"
    /\ KillAllLoop(ShutdownId, active_processes)
    /\ AfterKillAll(ShutdownId, SkipDone(active_processes) = <<>>)
    /\ UNCHANGED <<user, prevTask, tpc, tres, cancelReq, proc, overlap>>

\* cleanup_expired_sessions returned
ShutdownDone ==
    /\ UNCHANGED nonFacade
    /\ spc = "cleanup"
    /\ spc' = "done"
    /\ UNCHANGED <<pc, user, err, prevTask, active_tasks, tpc, tres, cancelReq, proc,
                   sig, active_processes, kq, kstage, overlap, foreignSig, foreignUntrack>>

Next ==
    \/ \E r \in Runs, u \in Users : RunCall(r, u)
    \/ \E r \in Runs : PrevAwaited(r)
    \/ \E r \in Runs : TaskCreate(r)
    \/ \E r \in Runs : TaskSpawn(r)
    \/ \E r \in Runs, kind \in {"ok", "fail"} : ChildExit(r, kind)
    \/ \E r \in Runs : TaskFinish(r)
    \/ \E r \in Runs : TaskTimeout(r)
    \/ \E r \in Runs : TaskTimeoutReaped(r)
    \/ \E r \in Runs : TaskCancelled(r)
    \/ \E r \in Runs : RunTaskOk(r)
    \/ \E r \in Runs : RunTaskFailed(r)
    \/ \E r \in Runs : RunTaskCancelled(r)
    \/ \E r \in Runs : RunReturn(r)
    \/ \E k \in Runs : KillEscalate(k)
    \/ \E k \in Runs : KillReaped(k)

Spec == Init /\ [][Next]_vars

\* The same system with ClaudeIntegration.shutdown called at any moment, for
\* runs 1..MaxShutdownRuns.
RunStep(r) ==
    \/ \E u \in Users : RunCall(r, u)
    \/ PrevAwaited(r) \/ TaskCreate(r) \/ TaskSpawn(r)
    \/ \E kind \in {"ok", "fail"} : ChildExit(r, kind)
    \/ TaskFinish(r) \/ TaskTimeout(r) \/ TaskTimeoutReaped(r) \/ TaskCancelled(r)
    \/ RunTaskOk(r) \/ RunTaskFailed(r) \/ RunTaskCancelled(r) \/ RunReturn(r)

NextShutdown ==
    \/ \E r \in 1..MaxShutdownRuns : RunStep(r)
    \/ \E k \in Killers : KillEscalate(k)
    \/ \E k \in Killers : KillReaped(k)
    \/ ShutdownCall
    \/ ShutdownDone

SpecShutdown == Init /\ [][NextShutdown]_vars

\* ============================================ _handle_process_output (SpecStream)
\* the tool name of update.tool_calls ("none": the update carries no tool call):
\* the tool_use block of an assistant message, the tool type of a tool_call
\* message, or the name cached at "started" when a completed message has no type
ToolName(m) ==
    IF m.type = "assistant" THEN m.tool
    ELSE IF m.type # "tool_call" THEN "none"
    ELSE IF m.tool # "unknown" THEN m.tool
    ELSE IF m.subtype = "completed" /\ m.call_id \in DOMAIN tool_tracking
         THEN tool_tracking[m.call_id]
    ELSE "none"

\* _parse_stream_message returns an update for every message but a result
HasUpdate(m) == m.type \in {"thinking", "assistant", "tool_call"}

\* the verdict of the facade's sink on the update's tool call
Verdict(m) ==
    IF ToolName(m) = "none" THEN "ok" ELSE ValidateToolCall(conf, has_validator, ToolName(m), m.input, ApprovedDirectory)

Denied(m) == Verdict(m) \notin {"ok", "raise"}

\* what stream_handler raises into the supervisor: ClaudeToolValidationError
\* for a denied critical tool, the exception of validate_tool_call, or nothing
\* (an exception of on_stream is caught inside stream_handler)
SinkRaises(m) ==
    IF Verdict(m) = "raise" THEN "other"
    ELSE IF Denied(m) /\ ToolName(m) \in CriticalTools THEN "tool_validation"
    ELSE "none"

\* the contrary behaviour, for comparison: the output loop letting through what is not a ClaudeToolValidationError
SinkOtherErrorAborts(kind) == kind = "other"

\* the output loop's `except Exception` around stream_callback: does an
\* exception of the sink end the loop?
SinkErrorAborts(kind) == FALSE

\* the contrary behaviour, for comparison: a completed line for an id that is
\* not tracked emptying tool_tracking
TrackAfterStrayClears(m) ==
    IF m.type # "tool_call" THEN tool_tracking
    ELSE IF m.subtype = "started"
         THEN (IF m.tool = "unknown" THEN tool_tracking
               ELSE [c \in DOMAIN tool_tracking \cup {m.call_id} |->
                        IF c = m.call_id THEN m.tool ELSE tool_tracking[c]])
    ELSE IF m.call_id \notin DOMAIN tool_tracking THEN <<>>
    ELSE [c \in DOMAIN tool_tracking \ {m.call_id} |-> tool_tracking[c]]

\* _parse_tool_call_message on tool_tracking: started stores the call under its
\* id when the tool type is known, completed deletes a tracked id
TrackAfter(m) ==
    IF m.type # "tool_call" THEN tool_tracking
    ELSE IF m.subtype = "started"
         THEN (IF m.tool = "unknown" THEN tool_tracking
               ELSE [c \in DOMAIN tool_tracking \cup {m.call_id} |->
                        IF c = m.call_id THEN m.tool ELSE tool_tracking[c]])
    ELSE [c \in DOMAIN tool_tracking \ {m.call_id} |-> tool_tracking[c]]

\* ... and on the spans: started opens one, completed of a tracked id ends it OK
SpanAfter(m) ==
    IF m.type # "tool_call" THEN span
    ELSE IF m.subtype = "started"
         THEN (IF m.tool = "unknown" THEN span ELSE [span EXCEPT ![m.call_id] = "open"])
    ELSE IF m.call_id \in DOMAIN tool_tracking THEN [span EXCEPT ![m.call_id] = "ok"]
    ELSE span

\* the contrary behaviour, for comparison: only the objects without "type" counted
CountsOnlyInvalid(m) == m.type = "no_type"

\* the lines appended to parsing_errors and skipped: json.loads raised
\* JSONDecodeError, or _validate_message_structure found no "type"
CountsAsParsingError(m) == m.type \in {"malformed", "no_type"}

\* One turn of the loop over the child's stdout, for line m; cb: the caller's
\* on_stream raises when stream_handler reaches it.
ReadLine(m, cb) ==
    /\ UNCHANGED nonStream
    /\ sphase = "reading"
    /\ nread < MaxMsgs
    /\ cb => (HasUpdate(m) /\ SinkRaises(m) = "none")
    /\ nread' = nread + 1
    /\ streamOpen' = IF m.type # "tool_call" THEN streamOpen
                     ELSE IF m.subtype = "started" THEN streamOpen \cup {m.call_id}
                     ELSE streamOpen \ {m.call_id}
    /\ parsing_errors' = IF CountsAsParsingError(m) THEN parsing_errors + 1
                         ELSE parsing_errors
    /\ nMalformed' = IF m.type = "malformed" THEN nMalformed + 1 ELSE nMalformed
    /\ nInvalid' = IF m.type = "no_type" THEN nInvalid + 1 ELSE nInvalid
    /\ knownOpen' = IF m.type # "tool_call" THEN knownOpen
                    ELSE IF m.subtype = "completed" THEN knownOpen \ {m.call_id}
                    ELSE IF m.tool # "unknown" THEN knownOpen \cup {m.call_id}
                    ELSE knownOpen
    /\ nStray' = IF /\ m.type = "tool_call" /\ m.subtype = "completed"
                    /\ m.call_id \notin DOMAIN tool_tracking
                 THEN nStray + 1 ELSE nStray
    /\ tool_tracking' = TrackAfter(m)
    /\ span' = SpanAfter(m)
    /\ tools_validated' = (tools_validated /\ ~Denied(m))
    /\ validation_errors' = IF Denied(m) THEN validation_errors + 1 ELSE validation_errors
    /\ blocked_tools' = IF Verdict(m) = "not_allowed" THEN blocked_tools \cup {ToolName(m)}
                        ELSE blocked_tools
    /\ critAt' = IF SinkRaises(m) = "tool_validation" /\ critAt = 0 THEN nread + 1 ELSE critAt
    /\ nonCritDenied' = (nonCritDenied \/ (Denied(m) /\ ToolName(m) \notin CriticalTools))
    /\ sinkOther' = (sinkOther \/ SinkRaises(m) = "other")
    /\ cbFailed' = (cbFailed \/ cb)
    /\ IF SinkRaises(m) # "none" /\ SinkErrorAborts(SinkRaises(m))
       THEN /\ sphase' = "task_done"
            /\ sout' = SinkRaises(m)
            /\ UNCHANGED result
       ELSE /\ result' = IF m.type = "result"
                         THEN (IF m.is_error THEN "error" ELSE "ok")
                         ELSE result
            /\ UNCHANGED <<sphase, sout>>
    /\ UNCHANGED <<conf, return_code, resp, orphans>>

\* the contrary behaviour, for comparison: ClaudeParsingError for a missing
\* result with a non-zero exit status
EndOutcomeParsingOnFailure(res, rc) ==
    IF res = "error" THEN "process_error"
    ELSE IF res = "none" /\ rc # 0 THEN "parsing_error"
    ELSE IF rc # 0 THEN "process_error"
    ELSE IF res = "none" THEN "parsing_error"
    ELSE "response"

\* what the end of the loop makes of the last result and the exit status
EndOutcome(res, rc) ==
    IF res = "error" THEN "process_error"
    ELSE IF rc # 0 THEN "process_error"
    ELSE IF res = "none" THEN "parsing_error"
    ELSE "response"

\* the contrary behaviour, for comparison: the end of the loop leaving the uncompleted calls tracked
KeepsOrphans(out) == FALSE

\* the cleanup of uncompleted tool spans is on the path that returns a response
CleansOrphans(out) == out = "response"

\* stdout is at its end and process.wait() returned rc: ClaudeProcessError,
\* ClaudeParsingError, or the uncompleted spans are ended with status ERROR,
\* tool_tracking cleared and the response built.
EndOfStream(rc) ==
    /\ UNCHANGED nonStream
    /\ sphase = "reading"
    /\ return_code' = rc
    /\ orphans' = DOMAIN tool_tracking
    /\ sout' = EndOutcome(result, rc)
    /\ IF CleansOrphans(EndOutcome(result, rc))
       THEN /\ span' = [c \in CallIds |->
                          IF c \in DOMAIN tool_tracking THEN "forced_error" ELSE span[c]]
            /\ tool_tracking' = <<>>
       ELSE UNCHANGED <<span, tool_tracking>>
    /\ sphase' = "task_done"
    /\ UNCHANGED <<conf, nread, result, parsing_errors, tools_validated,
                   validation_errors, blocked_tools, resp, critAt, nonCritDenied,
                   sinkOther, cbFailed, streamOpen, nMalformed, nInvalid,
                   knownOpen, nStray>>

\* the contrary behaviour, for comparison: run_command returning the supervisor's response as it is
MarksNothing(validated) == FALSE

\* run_command after `await task`: `if not tools_validated`
MarksValidationFailure(validated) == ~validated

\* the task returned a response: it is marked when validation failed, and
\* returned.
FacadeReturn ==
    /\ UNCHANGED nonStream
    /\ sphase = "task_done"
    /\ sout = "response"
    /\ resp' = IF MarksValidationFailure(tools_validated)
               THEN [is_error |-> TRUE, error_type |-> "tool_validation_failed"]
               ELSE resp
    /\ sphase' = "returned"
    /\ UNCHANGED <<conf, nread, result, parsing_errors, tool_tracking, span,
                   tools_validated, validation_errors, blocked_tools, return_code,
                   sout, critAt, nonCritDenied, sinkOther, cbFailed, streamOpen,
                   orphans, nMalformed, nInvalid, knownOpen, nStray>>

\* the task raised: run_command logs and re-raises.
FacadeRaise ==
    /\ UNCHANGED nonStream
    /\ sphase = "task_done"
    /\ sout # "response"
    /\ sphase' = "raised"
    /\ UNCHANGED <<conf, nread, result, parsing_errors, tool_tracking, span,
                   tools_validated, validation_errors, blocked_tools, return_code,
                   sout, resp, critAt, nonCritDenied, sinkOther, cbFailed, streamOpen,
                   orphans, nMalformed, nInvalid, knownOpen, nStray>>

InitS ==
    /\ InitFacade /\ InitConversations
    /\ InitTracking
    /\ InitUser
    /\ InitCancel("none")
    /\ InitDelivery
    /\ InitProgress("text")
    /\ InitCallback(<<>>)
    /\ InitBuffer
    /\ InitContinue({})
    /\ InitSdk("") /\ InitMonitor(TRUE, TRUE) /\ InitSession({})
    /\ \E c \in Configs : InitStream(c)

NextStream ==
    \/ \E m \in Lines, cb \in BOOLEAN : ReadLine(m, cb)
    \/ \E rc \in {0, 1} : EndOfStream(rc)
    \/ FacadeReturn
    \/ FacadeRaise

SpecStream == InitS /\ [][NextStream]_vars

\* ================================= ClaudeSDKManager.execute_command (SpecSdk)
\* the messages of client.receive_response(): the iterator ends with the
\* ResultMessage, whose error text may be empty and which carries the session
\* id the agent issued
SdkMessages ==
    {[type |-> "assistant"], [type |-> "user"]}
    \cup [type : {"result"}, is_error : BOOLEAN, result : {"", "text"},
          session_id : {"s1", "s2"}]

\* the exceptions the handlers tell apart: RuntimeError naming a cancel scope,
\* any other RuntimeError, any other Exception
StreamErrors == {"cancel_scope", "runtime", "other"}

\* `getattr(message, "result", "") or str(message)`
ResultError(m) == IF m.result # "" THEN m.result ELSE "repr"

\* a ResultMessage with is_error is among the collected messages
HasErrorResult(msgs) ==
    \E i \in 1..Len(msgs) : msgs[i].type = "result" /\ msgs[i].is_error

\* the except clauses of _execute_query_with_streaming: what leaves it when
\* the stream or the client's exit raised e
StreamingRaises(msgs, e) ==
    IF e = "cancel_scope"
    THEN (IF HasErrorResult(msgs) THEN "error_from_result" ELSE "error_cancelled")
    ELSE IF e = "runtime" THEN "runtime"
    ELSE IF HasErrorResult(msgs) THEN "error_from_result"
    ELSE "other"

\* the except clauses of execute_command: what it raises for what left
\* _execute_query_with_streaming
ExecuteRaises(x) ==
    CASE x = "error_from_result" -> "error_from_result"
      [] x = "error_cancelled" -> "error_cancelled"
      [] x = "runtime" -> "error_runtime"
      [] OTHER -> "error_unexpected"

\* execute_command after the stream: the first ResultMessage decides
RECURSIVE FirstResultError(_)
FirstResultError(msgs) ==
    IF msgs = <<>> THEN ""
    ELSE IF Head(msgs).type = "result"
         THEN (IF Head(msgs).is_error THEN ResultError(Head(msgs)) ELSE "")
    ELSE FirstResultError(Tail(msgs))

\* one message is received and appended; a ResultMessage is the last one (the
\* loop breaks on an error result, the iterator ends after any result)
SdkReceive(m) ==
    /\ UNCHANGED nonSdk
    /\ sdk_phase = "streaming"
    /\ Len(messages) < MaxSdkMsgs
    /\ messages' = Append(messages, m)
    /\ sdk_phase' = IF m.type = "result" THEN "exiting" ELSE "streaming"
    /\ UNCHANGED <<sdk_session_id, sdk_out, sdk_response>>

\* the iterator ends without a ResultMessage
SdkStreamEnds ==
    /\ UNCHANGED nonSdk
    /\ sdk_phase = "streaming"
    /\ sdk_phase' = "exiting"
    /\ UNCHANGED <<messages, sdk_session_id, sdk_out, sdk_response>>

\* the stream raises inside the loop
SdkStreamRaises(e) ==
    /\ UNCHANGED nonSdk
    /\ sdk_phase = "streaming"
    /\ sdk_out' = ExecuteRaises(StreamingRaises(messages, e))
    /\ sdk_phase' = "raised"
    /\ UNCHANGED <<messages, sdk_session_id, sdk_response>>

\* the client's context manager exits, raising e or nothing; with nothing
\* raised execute_command raises for an error result or builds the response
\* under `session_id or str(uuid.uuid4())`
SdkClientExit(e) ==
    /\ UNCHANGED nonSdk
    /\ sdk_phase = "exiting"
    /\ IF e # "none"
       THEN /\ sdk_out' = ExecuteRaises(StreamingRaises(messages, e))
            /\ sdk_phase' = "raised"
            /\ UNCHANGED sdk_response
       ELSE IF FirstResultError(messages) # ""
       THEN /\ sdk_out' = "error_from_result"
            /\ sdk_phase' = "raised"
            /\ UNCHANGED sdk_response
       ELSE /\ sdk_out' = "response"
            /\ sdk_phase' = "returned"
            /\ sdk_response' = [session_id |-> IF sdk_session_id # "" THEN sdk_session_id
                                               ELSE "uuid",
                                is_error |-> FALSE]
    /\ UNCHANGED <<messages, sdk_session_id>>

InitK ==
    /\ InitFacade /\ InitConversations
    /\ InitTracking
    /\ InitUser
    /\ InitCancel("none")
    /\ InitDelivery
    /\ InitProgress("text")
    /\ InitCallback(<<>>)
    /\ InitBuffer
    /\ InitContinue({})
    /\ InitStream(DefaultConf) /\ InitMonitor(TRUE, TRUE) /\ InitSession({})
    /\ \E sid \in {"", "s1"} : InitSdk(sid)

NextSdk ==
    \/ \E m \in SdkMessages : SdkReceive(m)
    \/ SdkStreamEnds
    \/ \E e \in StreamErrors : SdkStreamRaises(e)
    \/ \E e \in StreamErrors \cup {"none"} : SdkClientExit(e)

SpecSdk == InitK /\ [][NextSdk]_vars

\* ===================== ToolMonitor, SecurityHooks, handle_cd_callback (SpecMonitor)
\* the inputs of the calls: null, an object with a path, an object with a command
MonitorInputs ==
    {NullInput}
    \cup [null : {FALSE}, file_path : Paths, command : {<<>>}]
    \cup [null : {FALSE}, file_path : {NoPath}, command : Commands]

\* the denials for which validate_tool_call appends a violation record
RecordedDenials == {"not_allowed", "disallowed", "invalid_path", "dangerous"}

\* the contrary behaviour, for comparison: every call that returns is counted
CountsEveryCall(verdict) == TRUE

\* the verdicts at which validate_tool_call reaches `self.tool_usage[tool_name] += 1`
CountsCall(verdict) == verdict = "ok"

\* one call of ToolMonitor.validate_tool_call (no await inside: one step);
\* working_directory is the user's current directory
MonitorValidate(tool, input) ==
    /\ UNCHANGED nonMonitor
    /\ ncalls < MaxValidations
    /\ LET wd == current_directory
           verdict == ValidateToolCall(conf, has_validator, tool, input, wd) IN
        /\ last' = [op |-> "validate", tool |-> tool, input |-> input,
                    working_directory |-> wd, verdict |-> verdict]
        /\ IF verdict = "raise"
           THEN UNCHANGED <<tool_usage, security_violations, ncalls, ndenied>>
           ELSE /\ tool_usage' = IF CountsCall(verdict)
                                 THEN [tool_usage EXCEPT ![tool] = @ + 1]
                                 ELSE tool_usage
                /\ security_violations' = IF verdict \in RecordedDenials
                                          THEN security_violations + 1
                                          ELSE security_violations
                /\ ncalls' = ncalls + 1
                /\ ndenied' = IF verdict = "ok" THEN ndenied ELSE ndenied + 1
    /\ UNCHANGED <<has_validator, cd_validator, current_directory>>

\* ToolMonitor.reset_stats
ResetStats ==
    /\ UNCHANGED nonMonitor
    /\ tool_usage' = [t \in MonitorTools |-> 0]
    /\ security_violations' = 0
    /\ ncalls' = 0
    /\ ndenied' = 0
    /\ last' = [NoOp EXCEPT !.op = "reset"]
    /\ UNCHANGED <<has_validator, cd_validator, current_directory>>

\* ToolMonitor.get_tool_stats()["total_calls"]
RECURSIVE SumOver(_, _)
SumOver(f, S) ==
    IF S = {} THEN 0
    ELSE LET t == CHOOSE x \in S : TRUE IN f[t] + SumOver(f, S \ {t})

TotalCalls == SumOver(tool_usage, MonitorTools)

\* one call of SecurityHooks.pre_tool_use_hook, of hooks made for a request in
\* the user's current directory
HookValidate(tool, input) ==
    /\ UNCHANGED nonMonitor
    /\ last' = [op |-> "hook", tool |-> tool, input |-> input,
                working_directory |-> current_directory,
                verdict |-> PreToolUseHook(conf, tool, input, current_directory)]
    /\ UNCHANGED <<has_validator, tool_usage, security_violations, cd_validator,
                   current_directory, ncalls, ndenied>>

\* ---- handle_cd_callback
\* project_name: "/", "..", or a path string
RootName == [abs |-> TRUE, segs |-> <<>>]

UpName == [abs |-> FALSE, segs |-> <<"..">>]

ProjectNames == (Paths \ {NoPath}) \cup {RootName, UpName}

\* Path.parent, on the segments as written
Parent(d) == IF d = <<>> THEN <<>> ELSE SubSeq(d, 1, Len(d) - 1)

\* str(d).startswith(str(approved_directory)): a prefix of the string, so a
\* sibling whose name starts with the approved directory's name passes too
StrStartsWithApproved(d) ==
    \/ IsPrefix(ApprovedDirectory, d)
    \/ /\ Len(d) >= Len(ApprovedDirectory)
       /\ SubSeq(d, 1, Len(ApprovedDirectory) - 1)
              = SubSeq(ApprovedDirectory, 1, Len(ApprovedDirectory) - 1)
       /\ d[Len(ApprovedDirectory)] \in {"app", "app2"}

\* new_path before validation
CdTarget(cur, name) ==
    IF name = RootName THEN ApprovedDirectory
    ELSE IF name = UpName
         THEN (IF StrStartsWithApproved(Parent(cur)) THEN Parent(cur)
               ELSE ApprovedDirectory)
    ELSE IF name.abs THEN name.segs
    ELSE ApprovedDirectory \o name.segs

\* the contrary behaviour, for comparison: the target is taken as written
CdAcceptsUnchecked(target) == TRUE

\* `if security_validator:` validate_path(str(new_path), approved_directory)
CdAccepts(target) ==
    cd_validator => ValidatePath([abs |-> TRUE, segs |-> target], ApprovedDirectory)

\* one cd callback; exists: the target exists and is a directory
HandleCdCallback(name, exists) ==
    /\ UNCHANGED nonMonitor
    /\ LET target == CdTarget(current_directory, name)
           new_path == IF cd_validator THEN ResolveFrom(<<>>, target) ELSE target
           verdict == IF ~CdAccepts(target) THEN "access_denied"
                      ELSE IF ~exists THEN "not_found"
                      ELSE "ok" IN
        /\ current_directory' = IF verdict = "ok" THEN new_path ELSE current_directory
        /\ last' = [op |-> "cd", tool |-> "",
                    input |-> [null |-> FALSE, file_path |-> name, command |-> <<>>],
                    working_directory |-> current_directory, verdict |-> verdict]
    /\ UNCHANGED <<has_validator, tool_usage, security_violations, cd_validator,
                   ncalls, ndenied>>

\* the configs of the monitor: no list, an allow-list, a deny-list
MonitorConfigs ==
    {c \in Configs : c.allowed \in {{}, {"Read", "read"}}
                     /\ (c.allowed = {} \/ c.disallowed = {})}

InitM ==
    /\ InitFacade /\ InitConversations
    /\ InitTracking
    /\ InitUser
    /\ InitCancel("none")
    /\ InitDelivery
    /\ InitProgress("text")
    /\ InitCallback(<<>>)
    /\ InitBuffer
    /\ InitContinue({})
    /\ InitSdk("")
    /\ \E c \in MonitorConfigs : InitStream(c)
    /\ InitMonitor(TRUE, TRUE) /\ InitSession({})

NextMonitor ==
    \/ \E t \in MonitorTools, i \in MonitorInputs : MonitorValidate(t, i)
    \/ ResetStats
    \/ \E t \in MonitorTools, i \in MonitorInputs : HookValidate(t, i)
    \/ \E n \in ProjectNames, e \in BOOLEAN : HandleCdCallback(n, e)

SpecMonitor == InitM /\ [][NextMonitor]_vars

\* ================================ run_command: get, execute, commit (SpecSession)
\* the session_id the result of the agent carries ("": none)
AgentIds == {"", "A", "B"}

\* the temporary id of the n-th run's new session ("temp_" and a fresh uuid)
TempId(n) == IF n = 1 THEN "temp_1" ELSE IF n = 2 THEN "temp_2" ELSE "temp_3"

\* claude_session_id: None for a new session
ClaudeSessionId(ses) == IF ses.is_new_session THEN "" ELSE ses.session_id

\* should_continue
ShouldContinue(given, ses) == given # "" /\ ~ses.is_new_session

\* SessionManager.get_or_create_session: the stored session when session_id
\* is given and held, else a new one under a temporary id; then the arguments
\* of _execute and the task
GetOrCreateSession(given) ==
    /\ UNCHANGED nonSession
    /\ rpc \in {"idle", "returned", "raised"}
    /\ nruns < MaxSessionRuns
    /\ nruns' = nruns + 1
    /\ IF given # "" /\ given \in sessions
       THEN /\ session' = [session_id |-> given, is_new_session |-> FALSE]
            /\ sessions' = sessions
       ELSE /\ session' = [session_id |-> TempId(nruns + 1), is_new_session |-> TRUE]
            /\ sessions' = sessions \cup {TempId(nruns + 1)}
    /\ held_as' = session'.session_id
    /\ agent_call' = [given |-> given,
                      session_id |-> ClaudeSessionId(session'),
                      continue_session |-> ShouldContinue(given, session')]
    /\ response' = NoResponse
    /\ rpc' = "executing"

\* the response of CursorAgentManager._parse_result for a result carrying
\* session_id sid ("" when it carries none)
CursorResponse(sid) == [session_id |-> sid, is_error |-> FALSE]

\* the response of ClaudeSDKManager.execute_command: session_id or a new uuid
SdkResponse(ses) ==
    [session_id |-> IF ClaudeSessionId(ses) # "" THEN ClaudeSessionId(ses) ELSE "uuid",
     is_error |-> FALSE]

\* `response = await task`, then the marking of a failed tool validation
TaskReturns(resp0, validated) ==
    /\ UNCHANGED nonSession
    /\ rpc = "executing"
    /\ response' = [resp0 EXCEPT !.is_error = ~validated]
    /\ rpc' = "executed"
    /\ UNCHANGED <<sessions, session, held_as, agent_call, nruns>>

\* the task raised: run_command raises, the session is not committed
TaskRaises ==
    /\ UNCHANGED nonSession
    /\ rpc = "executing"
    /\ rpc' = "raised"
    /\ UNCHANGED <<sessions, session, held_as, agent_call, response, nruns>>

\* SessionManager.update_session rekeys the entry: the stored session was new
\* and the response carries an id
Rekeys(ses, resp0) == ses.is_new_session /\ resp0.session_id # ""

\* hasattr(session, "is_new_session"): the field is there on every session
HasIsNewSession(ses) == "is_new_session" \in DOMAIN ses

\* the contrary behaviour, for comparison: the response keeps the agent's id
FinalSessionIdOfAgent(ses, old_session_id, resp0) == resp0.session_id

\* final_session_id of run_command
FinalSessionId(ses, old_session_id, resp0) ==
    IF HasIsNewSession(ses) /\ resp0.session_id # "" THEN resp0.session_id
    ELSE old_session_id

\* update_session(session.session_id, response), then response.session_id is
\* set to final_session_id and the response returned
CommitSession ==
    /\ UNCHANGED nonSession
    /\ rpc = "executed"
    /\ LET old_session_id == session.session_id
           updated == IF Rekeys(session, response)
                      THEN [session_id |-> response.session_id,
                            is_new_session |-> FALSE]
                      ELSE session IN
        /\ session' = updated
        /\ sessions' = IF Rekeys(session, response)
                       THEN (sessions \ {old_session_id}) \cup {response.session_id}
                       ELSE sessions
        /\ held_as' = updated.session_id
        /\ response' = [response EXCEPT
                           !.session_id = FinalSessionId(updated, old_session_id, response)]
    /\ rpc' = "returned"
    /\ UNCHANGED <<agent_call, nruns>>

InitN ==
    /\ InitFacade /\ InitConversations
    /\ InitTracking
    /\ InitUser
    /\ InitCancel("none")
    /\ InitDelivery
    /\ InitProgress("text")
    /\ InitCallback(<<>>)
    /\ InitBuffer
    /\ InitContinue({})
    /\ InitStream(DefaultConf) /\ InitSdk("") /\ InitMonitor(TRUE, TRUE)
    /\ \E stored \in {{}, {"A"}} : InitSession(stored)

NextSession ==
    \/ \E given \in AgentIds \cup {id \in {response.session_id} : rpc = "returned"} :
           GetOrCreateSession(given)
    \/ \E sid \in AgentIds, v \in BOOLEAN : TaskReturns(CursorResponse(sid), v)
    \/ \E v \in BOOLEAN : TaskReturns(SdkResponse(session), v)
    \/ TaskRaises
    \/ CommitSession

SpecSession == InitN /\ [][NextSession]_vars

\* ======================================= ClaudeIntegration.continue_session (SpecContinue)
\* the ids, project paths and last_used instants of the stored sessions
StoredIds == {"A", "B", "temp_1"}

ProjectPaths == {"wd1", "wd2"}

\* the sets of sessions _get_user_sessions can return: at most one per id
StoredSessions ==
    {{[session_id |-> i, project_path |-> f[i].project_path,
       last_used |-> f[i].last_used] : i \in D} :
        D \in SUBSET StoredIds,
        f \in [StoredIds -> [project_path : ProjectPaths, last_used : 1..MaxLastUsed]]}

\* s.session_id.startswith("temp_")
IsTemporary(id) == id \in {TempId(1), TempId(2), TempId(3)}

\* the contrary behaviour, for comparison: temporary sessions match too
MatchingSessionsWithTemporary(ss, wd) == {x \in ss : x.project_path = wd}

\* matching_sessions: the user's sessions in this directory, temporary ones excluded
MatchingSessions(ss, wd) ==
    {x \in ss : x.project_path = wd /\ ~IsTemporary(x.session_id)}

\* max(matching_sessions, key=last_used): a session none is used later than
\* (which one of several used last depends on the order of the list)
Latest(ms) == {x \in ms : \A y \in ms : y.last_used <= x.last_used}

\* one call of continue_session: None when nothing matches, else one
\* run_command with the latest session's id
ContinueSession(wd) ==
    /\ UNCHANGED nonContinue
    /\ cs_out = "none"
    /\ cs_wd' = wd
    /\ IF MatchingSessions(user_sessions, wd) = {}
       THEN /\ cs_out' = "None"
            /\ cs_runs' = cs_runs
       ELSE \E latest_session \in Latest(MatchingSessions(user_sessions, wd)) :
            /\ cs_runs' = Append(cs_runs, latest_session.session_id)
            /\ cs_out' = "response"
    /\ UNCHANGED user_sessions

InitC ==
    /\ InitFacade /\ InitConversations
    /\ InitTracking
    /\ InitUser
    /\ InitCancel("none")
    /\ InitDelivery
    /\ InitProgress("text")
    /\ InitCallback(<<>>)
    /\ InitBuffer
    /\ InitStream(DefaultConf) /\ InitSdk("") /\ InitMonitor(TRUE, TRUE)
    /\ InitSession({})
    /\ \E stored \in StoredSessions : InitContinue(stored)

NextContinue == \E wd \in ProjectPaths : ContinueSession(wd)

SpecContinue == InitC /\ [][NextContinue]_vars

\* ============================= message_buffer, _parse_result.tools_used (SpecBuffer)
\* the lines of one request, as far as the buffer and tools_used tell them apart
BufferLines ==
    {[type |-> "malformed"], [type |-> "no_type"], [type |-> "thinking"]}
    \cup [type : {"result"}, is_error : BOOLEAN]
    \cup [type : {"tool_call"}, subtype : {"started", "completed"}, call_id : {1},
          tool : {"read", "shell", "unknown"}, input : {OkInput}]

\* the contrary behaviour, for comparison: a list that keeps every message
AppendUnbounded(q, m) == Append(q, m)

\* deque(maxlen=max_message_buffer).append: at the bound the leftmost goes
DequeAppend(q, m) ==
    IF Len(q) < MaxMessageBuffer THEN Append(q, m) ELSE Append(Tail(q), m)

\* the contrary behaviour, for comparison: every tool_call message is listed
IsToolCall(m) == m.type = "tool_call"

\* _parse_result: msg.get("type") == "tool_call" and msg.get("subtype") == "started"
IsStarted(m) == m.type = "tool_call" /\ m.subtype = "started"

\* _parse_result: tools_used, the names _extract_tool_name gives the started
\* tool calls of the messages handed to it
RECURSIVE ToolsUsed(_)
ToolsUsed(msgs) ==
    IF msgs = <<>> THEN <<>>
    ELSE IF IsStarted(Head(msgs)) THEN <<Head(msgs).tool>> \o ToolsUsed(Tail(msgs))
    ELSE ToolsUsed(Tail(msgs))

\* one turn of the loop: a line that is not JSON or has no "type" is skipped,
\* any other message is appended to the buffer and counted
BufferLine(m) ==
    /\ UNCHANGED nonBuffer
    /\ b_phase = "reading"
    /\ b_read < MaxMsgs
    /\ b_read' = b_read + 1
    /\ IF CountsAsParsingError(m)
       THEN UNCHANGED <<message_buffer, message_count, emitted, b_result>>
       ELSE /\ message_buffer' = DequeAppend(message_buffer, m)
            /\ message_count' = message_count + 1
            /\ emitted' = Append(emitted, m)
            /\ b_result' = IF m.type = "result"
                           THEN (IF m.is_error THEN "error" ELSE "ok")
                           ELSE b_result
    /\ UNCHANGED <<b_phase, tools_used>>

\* the end of the stream: an error is raised, or _parse_result builds the
\* response from list(message_buffer)
BufferEnd(rc) ==
    /\ UNCHANGED nonBuffer
    /\ b_phase = "reading"
    /\ IF EndOutcome(b_result, rc) = "response"
       THEN /\ tools_used' = ToolsUsed(message_buffer)
            /\ b_phase' = "returned"
       ELSE /\ tools_used' = tools_used
            /\ b_phase' = "raised"
    /\ UNCHANGED <<message_buffer, message_count, b_read, b_result, emitted>>

InitB ==
    /\ InitFacade /\ InitConversations
    /\ InitTracking
    /\ InitUser
    /\ InitCancel("none")
    /\ InitDelivery
    /\ InitProgress("text")
    /\ InitCallback(<<>>)
    /\ InitContinue({})
    /\ InitStream(DefaultConf) /\ InitSdk("") /\ InitMonitor(TRUE, TRUE)
    /\ InitSession({})
    /\ InitBuffer

NextBuffer ==
    \/ \E m \in BufferLines : BufferLine(m)
    \/ \E rc \in {0, 1} : BufferEnd(rc)

SpecBuffer == InitB /\ [][NextBuffer]_vars

\* ======================= get_callback_data, parse_callback_data, router (SpecCallback)
\* strings are sequences of characters
Chars == {"a", "p", "-", ":"}

RECURSIVE StringsUpTo(_)
StringsUpTo(n) ==
    IF n = 0 THEN {<<>>}
    ELSE LET shorter == StringsUpTo(n - 1) IN
         shorter \cup {Append(w, c) : w \in {x \in shorter : Len(x) = n - 1}, c \in Chars}

\* command names (file names without .md)
CommandNames == StringsUpTo(MaxNameLen)

\* PROJECT_COMMAND_PREFIX = "pcmd:"
PROJECT_COMMAND_PREFIX == <<"p", "c", "m", "d", ":">>

\* ProjectCommand.get_callback_data
GetCallbackData(name) == PROJECT_COMMAND_PREFIX \o name

\* str.startswith
StartsWith(str, prefix) ==
    Len(prefix) <= Len(str) /\ SubSeq(str, 1, Len(prefix)) = prefix

\* the contrary behaviour, for comparison: the prefix is cut without its colon
ParseCallbackDataKeepsColon(data) ==
    IF ~StartsWith(data, PROJECT_COMMAND_PREFIX) THEN None
    ELSE Some(SubSeq(data, Len(PROJECT_COMMAND_PREFIX), Len(data)))

\* parse_callback_data: None without the prefix, else what follows it
ParseCallbackData(data) ==
    IF ~StartsWith(data, PROJECT_COMMAND_PREFIX) THEN None
    ELSE Some(SubSeq(data, Len(PROJECT_COMMAND_PREFIX) + 1, Len(data)))

\* the position of the first ":" of a string that has one
FirstColon(data) ==
    CHOOSE i \in 1..Len(data) : data[i] = ":" /\ \A j \in 1..(i - 1) : data[j] # ":"

\* handle_callback_query: data.split(":", 1) when ":" is in data
SplitCallbackData(data) ==
    IF \E i \in 1..Len(data) : data[i] = ":"
    THEN [action |-> SubSeq(data, 1, FirstColon(data) - 1),
          param |-> Some(SubSeq(data, FirstColon(data) + 1, Len(data)))]
    ELSE [action |-> data, param |-> None]

\* the inline button of the command is built
BuildButton ==
    /\ UNCHANGED nonCallback
    /\ cb_phase = "idle"
    /\ callback_data' = GetCallbackData(cmd_name)
    /\ cb_phase' = "built"
    /\ UNCHANGED <<cmd_name, parsed, routed>>

\* the button is pressed: its data is parsed and routed
PressButton ==
    /\ UNCHANGED nonCallback
    /\ cb_phase = "built"
    /\ parsed' = ParseCallbackData(callback_data)
    /\ routed' = SplitCallbackData(callback_data)
    /\ cb_phase' = "pressed"
    /\ UNCHANGED <<cmd_name, callback_data>>

InitD ==
    /\ InitFacade /\ InitConversations
    /\ InitTracking
    /\ InitUser
    /\ InitCancel("none")
    /\ InitDelivery
    /\ InitProgress("text")
    /\ InitContinue({}) /\ InitBuffer
    /\ InitStream(DefaultConf) /\ InitSdk("") /\ InitMonitor(TRUE, TRUE)
    /\ InitSession({})
    /\ \E name \in CommandNames : InitCallback(name)

NextCallback == BuildButton \/ PressButton

SpecCallback == InitD /\ [][NextCallback]_vars

\* ===================================== stream_handler: throttled edits (SpecProgress)
\* the types of the updates the parsers build
UpdateTypes == {"system", "user", "thinking", "assistant", "tool_call", "tool_result"}

\* the rendered progress texts: empty, or one of two bodies
ProgressTexts == {<<>>, <<"a">>, <<"b">>}

\* the time that passes between two updates
Ticks == {0, CommandInterval - 1, CommandInterval, UpdateInterval}

\* handle_text_message: is_important
IsImportant(type) == type \in {"tool_result", "error"}

\* the contrary behaviour, for comparison: every update passes the throttle
UnthrottledAlways(type) == TRUE

\* handle_project_command_callback: the updates that are never throttled
Unthrottled(type) == type \notin {"thinking", "assistant"}

\* progress_text and progress_text != last_progress_text
TextDiffers(text) == text # <<>> /\ Some(text) # last_progress_text

\* current_time - last_update_time, when `tick` has passed since the last update
TimeSinceLast(tick) == now + tick - last_update_time

\* the decision of both handlers, then progress_msg.edit_text, which returns or
\* raises; the two assignments follow an edit that returned
HandleUpdate(type, text, tick, passes, edit_ok) ==
    LET current_time == now + tick
        edits == TextDiffers(text) /\ passes
    IN  /\ current_time <= StartTime + MaxClock
        /\ now' = current_time
        /\ handled' = [type |-> type, text |-> text, differs |-> TextDiffers(text),
                       since |-> TimeSinceLast(tick),
                       edit |-> IF ~edits THEN "none"
                                ELSE IF edit_ok THEN "done" ELSE "raised"]
        /\ IF edits /\ edit_ok
           THEN last_progress_text' = Some(text) /\ last_update_time' = current_time
           ELSE UNCHANGED <<last_progress_text, last_update_time>>
        /\ UNCHANGED mode

\* handle_text_message.stream_handler
TextStreamHandler(type, text, tick, edit_ok) ==
    /\ UNCHANGED nonProgress
    /\ mode = "text"
    /\ HandleUpdate(type, text, tick,
                    IsImportant(type) \/ TimeSinceLast(tick) >= UpdateInterval, edit_ok)

\* handle_project_command_callback.stream_handler
CommandStreamHandler(type, text, tick, edit_ok) ==
    /\ UNCHANGED nonProgress
    /\ mode = "command"
    /\ HandleUpdate(type, text, tick,
                    Unthrottled(type) \/ TimeSinceLast(tick) >= CommandInterval, edit_ok)

InitP ==
    /\ InitFacade /\ InitConversations
    /\ InitTracking
    /\ InitUser
    /\ InitCancel("none")
    /\ InitDelivery
    /\ InitCallback(<<>>)
    /\ InitBuffer
    /\ InitContinue({})
    /\ InitStream(DefaultConf) /\ InitSdk("")
    /\ InitMonitor(TRUE, TRUE) /\ InitSession({})
    /\ \E m \in {"text", "command"} : InitProgress(m)

NextProgress ==
    \E type \in UpdateTypes, text \in ProgressTexts, tick \in Ticks, edit_ok \in BOOLEAN :
        \/ TextStreamHandler(type, text, tick, edit_ok)
        \/ CommandStreamHandler(type, text, tick, edit_ok)

SpecProgress == InitP /\ [][NextProgress]_vars

\* ============================ output loop, facade.stream_handler, on_stream (SpecDelivery)
\* a line of the child: blank, not a message, a message with an update (with or
\* without tool calls), or the result message, which has no update
LineKinds == {"blank", "bad", "text", "tool", "result"}

\* the verdicts of facade.stream_handler on an update: it passes the update on,
\* or raises for a denied critical tool
SinkVerdicts == {"pass", "raise"}

\* the child writes a line to its stdout
ChildWrite(kind) ==
    /\ UNCHANGED nonDelivery
    /\ ~closed /\ Len(written) < MaxLines
    /\ written' = Append(written, kind)
    /\ stdout' = Append(stdout, [id |-> Len(written) + 1, kind |-> kind])
    /\ UNCHANGED <<closed, loop_pc, stage, delivered>>

\* the child closes its stdout
ChildClose ==
    /\ UNCHANGED nonDelivery
    /\ ~closed
    /\ closed' = TRUE
    /\ UNCHANGED <<stdout, written, loop_pc, stage, delivered>>

\* the contrary behaviour, for comparison: the loop goes on without awaiting
\* stream_callback
SinkNotAwaited == TRUE

\* await stream_callback(update): the loop goes on when the call is over
SinkAwaited == \A i \in 1..MaxLines : stage[i] \notin {"validate", "render"}

\* the loop takes the next line; an update goes to stream_callback
LoopRead ==
    /\ UNCHANGED nonDelivery
    /\ loop_pc = "read" /\ SinkAwaited
    /\ stdout # <<>>
    /\ stdout' = Tail(stdout)
    /\ stage' = IF Head(stdout).kind \in {"text", "tool"}
                THEN [stage EXCEPT ![Head(stdout).id] = "validate"]
                ELSE stage
    /\ UNCHANGED <<written, closed, loop_pc, delivered>>

\* the read returns no chunk: the loop ends
LoopEnd ==
    /\ UNCHANGED nonDelivery
    /\ loop_pc = "read" /\ SinkAwaited
    /\ stdout = <<>> /\ closed
    /\ loop_pc' = "done"
    /\ UNCHANGED <<stdout, written, closed, stage, delivered>>

\* facade.stream_handler: the tool calls are validated; a denied critical tool
\* raises, which the loop logs; else on_stream is invoked
SinkValidate(i, verdict) ==
    /\ UNCHANGED nonDelivery
    /\ loop_pc = "read" /\ stage[i] = "validate"
    /\ verdict = "raise" => written[i] = "tool"
    /\ IF verdict = "raise"
       THEN stage' = [stage EXCEPT ![i] = "done"] /\ UNCHANGED delivered
       ELSE stage' = [stage EXCEPT ![i] = "render"] /\ delivered' = Append(delivered, i)
    /\ UNCHANGED <<stdout, written, closed, loop_pc>>

\* on_stream returns, or raises, which facade.stream_handler logs
SinkReturn(i) ==
    /\ UNCHANGED nonDelivery
    /\ loop_pc = "read" /\ stage[i] = "render"
    /\ stage' = [stage EXCEPT ![i] = "done"]
    /\ UNCHANGED <<stdout, written, closed, loop_pc, delivered>>

\* the task of the request is cancelled at its await
LoopCancelled ==
    /\ UNCHANGED nonDelivery
    /\ loop_pc = "read"
    /\ loop_pc' = "cancelled"
    /\ stage' = [i \in 1..MaxLines |->
                    IF stage[i] \in {"validate", "render"} THEN "aborted" ELSE stage[i]]
    /\ UNCHANGED <<stdout, written, closed, delivered>>

InitO ==
    /\ InitFacade /\ InitConversations
    /\ InitTracking
    /\ InitUser
    /\ InitCancel("none")
    /\ InitProgress("text") /\ InitCallback(<<>>)
    /\ InitBuffer
    /\ InitContinue({})
    /\ InitStream(DefaultConf) /\ InitSdk("")
    /\ InitMonitor(TRUE, TRUE) /\ InitSession({})
    /\ InitDelivery

NextDelivery ==
    \/ \E kind \in LineKinds : ChildWrite(kind)
    \/ ChildClose
    \/ LoopRead
    \/ LoopEnd
    \/ \E i \in 1..MaxLines, verdict \in SinkVerdicts :
           /\ SinkValidate(i, verdict)
    \/ \E i \in 1..MaxLines : SinkReturn(i)
    \/ LoopCancelled

SpecDelivery == InitO /\ [][NextDelivery]_vars

\* ============================================ _graceful_cancel_process (SpecCancel)
Strategies == <<"int", "term", "kill">>

\* what sending a signal does: it is delivered, raises ProcessLookupError, or
\* raises another exception
SendOutcomes == {"sent", "lookup", "failed"}

\* where the coroutine is after strategy n was skipped or its send failed
AfterStrategy(n) == IF n = 3 THEN "returned" ELSE "try_" \o Strategies[n + 1]

\* the contrary behaviour, for comparison: only ProcessLookupError is handled
SendThenLookupOnly(n, outcome) ==
    CASE outcome = "sent" -> "wait_" \o Strategies[n]
      [] outcome = "lookup" -> "returned"
      [] outcome = "failed" -> "raised"

\* the try block of strategy n: wait after a send; return (pass, for kill) on
\* ProcessLookupError; go on to the next strategy on any other exception
SendThen(n, outcome) ==
    CASE outcome = "sent" -> "wait_" \o Strategies[n]
      [] outcome = "lookup" -> "returned"
      [] outcome = "failed" -> AfterStrategy(n)

\* strategy n up to its await: skipped when returncode is set; a signal
\* raises ProcessLookupError only when the process is gone
TryStrategy(n, outcome) ==
    /\ UNCHANGED nonCancel
    /\ g_pc = "try_" \o Strategies[n]
    /\ IF returncode = "none"
       THEN /\ outcome = "lookup" => child = "gone"
            /\ g_pc' = SendThen(n, outcome)
            /\ attempts' = Append(attempts, [signal |-> Strategies[n], outcome |-> outcome])
       ELSE /\ outcome = "sent"
            /\ g_pc' = AfterStrategy(n)
            /\ UNCHANGED attempts
    /\ UNCHANGED <<g_calls, child, returncode>>

\* the child ends, at any moment
CancelledChildExits ==
    /\ UNCHANGED nonCancel
    /\ g_pc \notin {"returned", "raised"}
    /\ child = "running"
    /\ child' = "gone"
    /\ UNCHANGED <<g_pc, g_calls, returncode, attempts>>

\* the event loop learns of the exit while the coroutine is suspended:
\* process.wait() returns and the call is over
WaitReturns(n) ==
    /\ UNCHANGED nonCancel
    /\ g_pc = "wait_" \o Strategies[n]
    /\ child = "gone"
    /\ returncode' = "set"
    /\ g_pc' = "returned"
    /\ attempts' = Append(attempts, [signal |-> Strategies[n], outcome |-> "exited"])
    /\ UNCHANGED <<g_calls, child>>

\* wait_for(process.wait(), 2.0) raises TimeoutError, at the latest while the
\* child ends: the next strategy is tried (kill waits without a timeout)
WaitTimesOut(n, reaped) ==
    /\ UNCHANGED nonCancel
    /\ n < 3
    /\ g_pc = "wait_" \o Strategies[n]
    /\ reaped => child = "gone"
    /\ returncode' = IF reaped THEN "set" ELSE returncode
    /\ g_pc' = AfterStrategy(n)
    /\ attempts' = Append(attempts, [signal |-> Strategies[n], outcome |-> "timeout"])
    /\ UNCHANGED <<g_calls, child>>

\* the loop of kill_all_processes goes on to its next process, whose
\* returncode is rc
NextGracefulCancel(rc) ==
    /\ UNCHANGED nonCancel
    /\ g_pc = "returned" /\ g_calls < MaxCancelCalls
    /\ g_calls' = g_calls + 1
    /\ g_pc' = "try_int"
    /\ child' = (IF rc = "none" THEN "running" ELSE "gone")
    /\ returncode' = rc
    /\ attempts' = <<>>

InitG ==
    /\ InitFacade /\ InitConversations
    /\ InitTracking
    /\ InitUser
    /\ InitProgress("text") /\ InitCallback(<<>>)
    /\ InitBuffer /\ InitDelivery
    /\ InitContinue({})
    /\ InitStream(DefaultConf) /\ InitSdk("")
    /\ InitMonitor(TRUE, TRUE) /\ InitSession({})
    /\ \E rc \in {"none", "set"} : InitCancel(rc)

NextCancel ==
    \E n \in 1..3 :
        \/ \E outcome \in SendOutcomes : TryStrategy(n, outcome)
        \/ CancelledChildExits
        \/ WaitReturns(n)
        \/ \E reaped \in BOOLEAN : WaitTimesOut(n, reaped)
        \/ \E rc \in {"none", "set"} : NextGracefulCancel(rc)

SpecCancel == InitG /\ [][NextCancel]_vars

\* ================= execute_command with a user_id, kill_user_processes (SpecUser)
\* execute_command up to the output loop: the process is started and registered,
\* and the user's cancellation flag is reset
ExecuteForUser(p, u) ==
    /\ UNCHANGED nonUser
    /\ u_pc[p] = "idle"
    /\ \A q \in Procs : q < p => u_pc[q] # "idle"
    /\ u_pc' = [u_pc EXCEPT ![p] = "streaming"]
    /\ u_user' = [u_user EXCEPT ![p] = u]
    /\ u_child' = [u_child EXCEPT ![p] = "alive"]
    /\ sup_active' = sup_active \cup {p}
    /\ user_processes' = [user_processes EXCEPT ![u] = Append(@, p)]
    /\ cancelled_users' = [cancelled_users EXCEPT ![u] = "false"]
    /\ UNCHANGED <<u_signalled, u_result, u_out, k_pc, k_queue, flagged, snapshotted>>

\* the child ends, with status 0 or not
UserChildExits(p, status) ==
    /\ UNCHANGED nonUser
    /\ u_child[p] = "alive"
    /\ u_child' = [u_child EXCEPT ![p] = status]
    /\ UNCHANGED <<u_pc, u_user, u_signalled, u_result, u_out, sup_active, user_processes,
                   cancelled_users, k_pc, k_queue, flagged, snapshotted>>

\* check_cancelled
CheckCancelled(p) == cancelled_users[u_user[p]] = "true"

\* the reader yields a line to the loop: with the flag set the loop calls
\* _graceful_cancel_process, else it takes the message (the result, or another)
LoopTakesLine(p, is_result) ==
    /\ UNCHANGED nonUser
    /\ u_pc[p] = "streaming"
    /\ IF CheckCancelled(p)
       THEN /\ u_pc' = [u_pc EXCEPT ![p] = "cancel"]
            /\ u_signalled' = IF u_child[p] = "alive" THEN u_signalled \cup {p}
                                ELSE u_signalled
            /\ UNCHANGED u_result
       ELSE /\ u_result' = IF is_result THEN u_result \cup {p} ELSE u_result
            /\ UNCHANGED <<u_pc, u_signalled>>
    /\ UNCHANGED <<u_user, u_child, u_out, sup_active, user_processes, cancelled_users,
                   k_pc, k_queue, flagged, snapshotted>>

\* _read_stream_bounded stops: no chunk is left after the child ended, or
\* check_cancelled is true after a read that timed out or after a chunk's lines
ReaderStops(p) ==
    /\ UNCHANGED nonUser
    /\ u_pc[p] = "streaming"
    /\ u_child[p] # "alive" \/ CheckCancelled(p)
    /\ u_pc' = [u_pc EXCEPT ![p] = "ended"]
    /\ UNCHANGED <<u_user, u_child, u_signalled, u_result, u_out, sup_active,
                   user_processes, cancelled_users, k_pc, k_queue, flagged, snapshotted>>

\* how _handle_process_output ends after process.wait(): the exit status, then
\* the missing result
AfterWait(p) ==
    IF u_child[p] # "exit_0" THEN "process_error"
    ELSE IF p \notin u_result THEN "parsing_error"
    ELSE "response"

\* the finally block of execute_command
ExecuteFinally(p, out) ==
    /\ u_pc' = [u_pc EXCEPT ![p] = "done"]
    /\ u_out' = [u_out EXCEPT ![p] = out]
    /\ sup_active' = sup_active \ {p}
    /\ user_processes' = [user_processes EXCEPT ![u_user[p]] = Remove(@, p)]
    /\ cancelled_users' = [cancelled_users EXCEPT
                             ![u_user[p]] = IF @ = "true" THEN "true" ELSE "absent"]

\* execute_command ends: CancelledError after _graceful_cancel_process, or
\* what follows process.wait()
ExecuteEnds(p) ==
    /\ UNCHANGED nonUser
    /\ u_pc[p] \in {"cancel", "ended"}
    /\ u_child[p] # "alive"
    /\ ExecuteFinally(p, IF u_pc[p] = "cancel" THEN "cancelled" ELSE AfterWait(p))
    /\ UNCHANGED <<u_user, u_child, u_signalled, u_result, k_pc, k_queue, flagged,
                   snapshotted>>

\* the loop of kill_user_processes over the ids `q`, up to its next await, and
\* what follows the loop: both entries of the user are deleted
RECURSIVE KillUserLoop(_, _, _, _)
KillUserLoop(u, q, active, flags) ==
    IF q = <<>>
    THEN /\ k_pc' = [k_pc EXCEPT ![u] = "returned"]
         /\ k_queue' = [k_queue EXCEPT ![u] = <<>>]
         /\ sup_active' = active
         /\ user_processes' = [user_processes EXCEPT ![u] = <<>>]
         /\ cancelled_users' = [flags EXCEPT ![u] = "absent"]
         /\ UNCHANGED u_signalled
    ELSE IF Head(q) \notin active THEN KillUserLoop(u, Tail(q), active, flags)
    ELSE IF u_child[Head(q)] # "alive"
    THEN KillUserLoop(u, Tail(q), active \ {Head(q)}, flags)
    ELSE /\ k_pc' = [k_pc EXCEPT ![u] = "waiting"]
         /\ k_queue' = [k_queue EXCEPT ![u] = q]
         /\ sup_active' = active
         /\ u_signalled' = u_signalled \cup {Head(q)}
         /\ cancelled_users' = flags
         /\ UNCHANGED user_processes

\* kill_user_processes(u) up to its first await: the flag is set; without an
\* entry for the user it returns
KillUserProcesses(u) ==
    /\ UNCHANGED nonUser
    /\ k_pc[u] = "idle"
    /\ flagged' = flagged \cup {p \in Procs : /\ u_user[p] = u /\ u_pc[p] = "streaming"
                                               /\ u_child[p] = "alive"}
    /\ snapshotted' = snapshotted \cup Range(user_processes[u])
    /\ IF user_processes[u] = <<>>
       THEN /\ cancelled_users' = [cancelled_users EXCEPT ![u] = "true"]
            /\ k_pc' = [k_pc EXCEPT ![u] = "returned"]
            /\ UNCHANGED <<k_queue, sup_active, user_processes, u_signalled>>
       ELSE KillUserLoop(u, user_processes[u], sup_active,
                         [cancelled_users EXCEPT ![u] = "true"])
    /\ UNCHANGED <<u_pc, u_user, u_child, u_result, u_out>>

\* _graceful_cancel_process is over for the first id: it is untracked and the
\* loop goes on
KillUserReaped(u) ==
    /\ UNCHANGED nonUser
    /\ k_pc[u] = "waiting"
    /\ u_child[Head(k_queue[u])] # "alive"
    /\ KillUserLoop(u, Tail(k_queue[u]), sup_active \ {Head(k_queue[u])}, cancelled_users)
    /\ UNCHANGED <<u_pc, u_user, u_child, u_result, u_out, flagged, snapshotted>>

InitU ==
    /\ InitFacade /\ InitConversations
    /\ InitTracking
    /\ InitProgress("text") /\ InitCallback(<<>>)
    /\ InitBuffer /\ InitDelivery /\ InitCancel("none")
    /\ InitContinue({})
    /\ InitStream(DefaultConf) /\ InitSdk("")
    /\ InitMonitor(TRUE, TRUE) /\ InitSession({})
    /\ InitUser

NextUser ==
    \/ \E p \in Procs, u \in Users : ExecuteForUser(p, u)
    \/ \E p \in Procs, status \in {"exit_0", "exit_1"} : UserChildExits(p, status)
    \/ \E p \in Procs, is_result \in BOOLEAN : LoopTakesLine(p, is_result)
    \/ \E p \in Procs : ReaderStops(p)
    \/ \E p \in Procs : ExecuteEnds(p)
    \/ \E u \in Users : KillUserProcesses(u)
    \/ \E u \in Users : KillUserReaped(u)

SpecUser == InitU /\ [][NextUser]_vars

\* ====================================== tool_tracking of one supervisor (SpecTracking)
\* The requests are execute_command calls of different users on the supervisor
\* the facade holds; the child of each writes call_ids of its own, so a key of
\* the dict is written <<request, call_id>>.

\* execute_command of request r begins: `self.tool_tracking.clear()`.
TrackedExecute(r) ==
    /\ UNCHANGED nonTracking
    /\ t_pc[r] = "idle"
    /\ t_pc' = [t_pc EXCEPT ![r] = "streaming"]
    /\ t_tracking' = {}
    /\ UNCHANGED t_span

\* the loop of request r reads tool_call started with call_id c and a known tool
\* type: a span is opened and stored under the call_id.
TrackedStarted(r, c) ==
    /\ UNCHANGED nonTracking
    /\ t_pc[r] = "streaming"
    /\ t_tracking' = t_tracking \cup {<<r, c>>}
    /\ t_span' = [t_span EXCEPT ![r][c] = "open"]
    /\ UNCHANGED t_pc

\* the loop of request r reads tool_call completed with call_id c: the span of a
\* tracked id is ended with status OK and the entry deleted; an id that is not
\* in the dict is passed over.
TrackedCompleted(r, c) ==
    /\ UNCHANGED nonTracking
    /\ t_pc[r] = "streaming"
    /\ IF <<r, c>> \in t_tracking
       THEN /\ t_span' = [t_span EXCEPT ![r][c] = "ok"]
            /\ t_tracking' = t_tracking \ {<<r, c>>}
       ELSE UNCHANGED <<t_span, t_tracking>>
    /\ UNCHANGED t_pc

\* request r has its result: every span in the dict is ended with status ERROR,
\* the dict is cleared and the response returned.
TrackedReturns(r) ==
    /\ UNCHANGED nonTracking
    /\ t_pc[r] = "streaming"
    /\ t_span' = [q \in Requests |-> [c \in CallIds |->
                     IF <<q, c>> \in t_tracking THEN "forced_error" ELSE t_span[q][c]]]
    /\ t_tracking' = {}
    /\ t_pc' = [t_pc EXCEPT ![r] = "returned"]

\* request r ends by an exception (process error, parsing error, timeout,
\* cancellation): the dict is left as it is.
TrackedRaises(r) ==
    /\ UNCHANGED nonTracking
    /\ t_pc[r] = "streaming"
    /\ t_pc' = [t_pc EXCEPT ![r] = "raised"]
    /\ UNCHANGED <<t_tracking, t_span>>

InitT ==
    /\ InitFacade /\ InitConversations
    /\ InitUser
    /\ InitProgress("text") /\ InitCallback(<<>>)
    /\ InitBuffer /\ InitDelivery /\ InitCancel("none")
    /\ InitContinue({})
    /\ InitStream(DefaultConf) /\ InitSdk("")
    /\ InitMonitor(TRUE, TRUE) /\ InitSession({})
    /\ InitTracking

NextTracking ==
    \/ \E r \in Requests : TrackedExecute(r)
    \/ \E r \in Requests, c \in CallIds : TrackedStarted(r, c)
    \/ \E r \in Requests, c \in CallIds : TrackedCompleted(r, c)
    \/ \E r \in Requests : TrackedReturns(r)
    \/ \E r \in Requests : TrackedRaises(r)

SpecTracking == InitT /\ [][NextTracking]_vars

\* ======================== ClaudeSDKManager.active_sessions (SpecConversations)
\* _update_session: the entry of session_id is created when missing and its
\* messages replaced
UpdateSession(sessions_, session_id, n) ==
    [id \in DOMAIN sessions_ \cup {session_id} |->
        IF id = session_id THEN n ELSE sessions_[id]]

\* run_command creates the task of run r and execute_command begins with
\* session id sid: previous_messages are those stored for a continued session.
SdkExecute(r, sid, continue_session) ==
    /\ UNCHANGED nonConversations
    /\ a_pc[r] = "idle"
    /\ a_pc' = [a_pc EXCEPT ![r] = "running"]
    /\ a_sid' = [a_sid EXCEPT ![r] = sid]
    /\ a_prev' = [a_prev EXCEPT ![r] =
                     IF continue_session /\ sid # "" /\ sid \in DOMAIN active_sessions
                     THEN active_sessions[sid] ELSE 0]
    /\ UNCHANGED <<active_sessions, store_updated>>

\* the stream of run r ended with n new messages and no error: the conversation
\* is stored under `session_id or str(uuid.uuid4())`, the response returned and
\* the facade updates the Session Store.
SdkReturns(r, n) ==
    /\ UNCHANGED nonConversations
    /\ a_pc[r] = "running"
    /\ active_sessions' = UpdateSession(active_sessions,
                                        IF a_sid[r] # "" THEN a_sid[r] ELSE "uuid",
                                        a_prev[r] + n)
    /\ store_updated' = store_updated \cup {r}
    /\ a_pc' = [a_pc EXCEPT ![r] = "returned"]
    /\ UNCHANGED <<a_sid, a_prev>>

\* execute_command of run r raises (timeout, process error, error result):
\* run_command logs and re-raises.
SdkRaises(r) ==
    /\ UNCHANGED nonConversations
    /\ a_pc[r] = "running"
    /\ a_pc' = [a_pc EXCEPT ![r] = "failed"]
    /\ UNCHANGED <<a_sid, a_prev, active_sessions, store_updated>>

\* the contrary behaviour, for comparison: kill_all_processes of the SDK
\* supervisor doing nothing
SdkKillAllNoOp(sessions_) == sessions_

\* ClaudeSDKManager.kill_all_processes: `self.active_sessions.clear()`
SdkKillAllProcesses(sessions_) == <<>>

\* the task of run r is cancelled (a new message of its user, or the shutdown):
\* `except asyncio.CancelledError` of run_command calls
\* manager.kill_all_processes() and re-raises.
SdkCancelled(r) ==
    /\ UNCHANGED nonConversations
    /\ a_pc[r] = "running"
    /\ active_sessions' = SdkKillAllProcesses(active_sessions)
    /\ a_pc' = [a_pc EXCEPT ![r] = "cancelled"]
    /\ UNCHANGED <<a_sid, a_prev, store_updated>>

InitA ==
    /\ InitFacade /\ InitUser
    /\ InitProgress("text") /\ InitCallback(<<>>)
    /\ InitBuffer /\ InitDelivery /\ InitCancel("none")
    /\ InitContinue({})
    /\ InitStream(DefaultConf) /\ InitSdk("")
    /\ InitMonitor(TRUE, TRUE) /\ InitSession({})
    /\ InitTracking /\ InitConversations

NextConversations ==
    \/ \E r \in SdkRuns, sid \in SdkSessionIds \cup {""}, c \in BOOLEAN : SdkExecute(r, sid, c)
    \/ \E r \in SdkRuns, n \in 1..MaxSdkMsgs : SdkReturns(r, n)
    \/ \E r \in SdkRuns : SdkRaises(r)
    \/ \E r \in SdkRuns : SdkCancelled(r)

SpecConversations == InitA /\ [][NextConversations]_vars

\* =================================================================== claims (Spec)
\* the agent of run r is executing: its child is spawned and its output is read
Executing(r) == tpc[r] = "streaming" /\ proc[r] = "alive"

\* C1: at any instant at most one agent request of a user is in flight: no two
\* runs of the same user are executing their agent at the same time.
C1_SingleFlight ==
    \A r1, r2 \in Runs :
        (r1 # r2 /\ user[r1] # 0 /\ user[r1] = user[r2])
            => ~(Executing(r1) /\ Executing(r2))

\* C2: of two overlapping run calls of a user, the earlier one (in progress when
\* the later one was called) ends in CancelledError; in particular it never
\* returns a normal response after the later one has started.
C2_EarlierNeverReturns ==
    \A r \in Runs : \A q \in overlap[r] : pc[q] # "returned"

\* C3: runs of different users are independent: no run of one user signals or
\* untracks the running child of a run of another user.
C3_UsersIndependent == foreignSig = {} /\ foreignUntrack = {}

C7_TimeoutChildGone == \A r \in Runs : tres[r] = "timeout" => proc[r] # "alive"

\* C8: when a run preempted an earlier run of its user (it cancelled that run's
\* task and awaited it), the earlier run's child has exited by the time the later
\* run returns its response.
C8_PreemptedChildExited ==
    \A r, q \in Runs :
        (prevTask[r] = q /\ pc[r] = "returned") => proc[q] # "alive"

\* C32: when the Facade starts a request for a user who has an active child
\* process, the supervisor's cancelled_users flag of that user is set to true.
C32_NewRequestSetsFlag ==
    [][\A r \in Runs :
          (/\ pc[r] = "idle" /\ pc'[r] # "idle"
           /\ \E p \in Range(active_processes) :
                 user[p] = user'[r] /\ proc[p] = "alive")
              => cancelled_users'[user'[r]] = "true"]_vars

\* C37: the slot active_tasks[user] refers only to the task of the most recently
\* started run of the user that has one, and once no run of the user is in
\* progress no entry of the user remains.
C37_SlotIsLatestRun ==
    \A u \in Users :
        /\ \A r, q \in Runs :
              (active_tasks[u] = r /\ q > r /\ user[q] = u) => tpc[q] = "none"
        /\ (\A r \in Runs : user[r] = u => ~InProgress(r)) => active_tasks[u] = 0

\* ============================================================ claims (SpecShutdown)
\* C26: shutdown cancels every active child through the escalation; at the
\* moment kill_all_processes is over and shutdown goes on to return, no child
\* process is running and active_processes is empty.
C26_ShutdownLeavesNothing ==
    [][(spc # "cleanup" /\ spc' = "cleanup")
          => (active_processes' = <<>> /\ \A r \in Runs : proc'[r] # "alive")]_vars

\* C29: every cancellation of a child goes through the three-step escalation:
\* kill is sent to a child only after an interrupt and then a terminate were
\* sent to it.
C29_KillOnlyAfterTerminate ==
    [][\A r \in Runs : (sig[r] # "kill" /\ sig'[r] = "kill") => sig[r] = "term"]_vars

\* C30: within one graceful cancellation the signals go interrupt, terminate,
\* kill; a later one is sent only to a child still running after the wait of
\* the one before, and none is sent to a child that has exited.
C30_SignalsInOrder ==
    [][\A k \in Killers :
          (kq'[k] # <<>> /\ (kq[k] # kq'[k] \/ kstage[k] # kstage'[k]))
              => /\ proc[Head(kq'[k])] = "alive"
                 /\ kstage'[k] = "int" => (kq[k] = <<>> \/ Head(kq[k]) # Head(kq'[k]))
                 /\ kstage'[k] = "term" => (kq[k] = kq'[k] /\ kstage[k] = "int")
                 /\ kstage'[k] = "kill" => (kq[k] = kq'[k] /\ kstage[k] = "term")]_vars

\* a cancellation reached kill on a child that outlived interrupt and terminate
C30_Witness ==
    \E k \in Killers :
        /\ kq[k] # <<>> /\ kstage[k] = "kill"
        /\ proc[Head(kq[k])] = "alive" /\ sig[Head(kq[k])] = "kill"

\* ============================================================= claims (SpecStream)
\* C4: when the sink has raised ClaudeToolValidationError for a denied critical
\* tool, the supervisor has left the output loop with that error and no line
\* after the denied one was consumed.
C4_CriticalDenialAborts ==
    critAt # 0 => (sphase # "reading" /\ sout = "tool_validation" /\ nread = critAt)

\* C5: a denial of a tool outside the critical list does not end the output
\* loop, and the response run returns afterwards has is_error = true and
\* error_type = tool_validation_failed.
C5_NonCriticalDenialMarked ==
    nonCritDenied =>
        /\ sout \notin {"tool_validation", "other"}
        /\ sphase = "returned" =>
              (resp.is_error /\ resp.error_type = "tool_validation_failed")

C5_Witness ==
    /\ nonCritDenied /\ critAt = 0 /\ sphase = "returned"
    /\ resp.is_error /\ result = "ok"

\* C9 as stated: a response returned for a stream in which a started tool call
\* has no completed event after it has is_error = true.
C9_StartedCompletedOrError ==
    sphase = "returned" => (streamOpen = {} \/ resp.is_error)

\* C9 as amended: when the output loop produces a response, the calls still
\* tracked at the end of the stream (started, never completed) have had their
\* span ended with status ERROR and tool_tracking is empty; the response is
\* produced all the same.
C9_OrphansClosedOnResponse ==
    sout = "response" =>
        /\ DOMAIN tool_tracking = {}
        /\ \A c \in orphans : span[c] = "forced_error"
        /\ \A c \in CallIds : span[c] # "open"

C9_Witness == sphase = "returned" /\ orphans # {} /\ streamOpen # {} /\ ~resp.is_error

\* C10: an exception of the sink other than ClaudeToolValidationError (raised
\* by the validation itself or by the caller's on_stream) does not end the
\* output loop, and the request ends as the last result message and the exit
\* status alone decide.
C10_SinkErrorsHarmless ==
    (sinkOther \/ cbFailed) =>
        IF sphase = "reading" THEN sout = "none"
        ELSE sout = (CASE result = "error" -> "process_error"
                       [] result # "error" /\ return_code # 0 -> "process_error"
                       [] result = "none" /\ return_code = 0 -> "parsing_error"
                       [] OTHER -> "response")

C10_Witness == sinkOther /\ cbFailed /\ sphase = "returned" /\ critAt = 0

\* C11: the lines that are not JSON are skipped and counted without failing the
\* request: parsing_errors counts exactly the lines that are not JSON (plus the
\* objects without "type"), and a stream with such lines followed by a non-error
\* result of a child that exits with status 0 yields a response.
C11_MalformedCounted ==
    /\ parsing_errors = nMalformed + nInvalid
    /\ (sphase # "reading" /\ result = "ok" /\ return_code = 0) => sout = "response"

C11_Witness ==
    /\ sphase = "returned" /\ ~resp.is_error
    /\ nMalformed = 2 /\ nInvalid = 0 /\ parsing_errors = 2

\* C12 as stated: the request fails with ClaudeParsingError exactly when the
\* stream ended without a result message and the exit status is non-zero.
C12_ParsingErrorOnNonZero ==
    sphase # "reading" =>
        (sout = "parsing_error" <=> (result = "none" /\ return_code # 0))

\* C12 as amended: the request fails with ClaudeParsingError exactly when the
\* stream ended without a result message and the exit status is zero; without
\* a result and with a non-zero exit status it fails with ClaudeProcessError.
C12_ParsingErrorOnZero ==
    sphase # "reading" =>
        /\ sout = "parsing_error" <=> (result = "none" /\ return_code = 0)
        /\ (result = "none" /\ return_code # 0) => sout = "process_error"

C12_Witness ==
    sphase = "raised" /\ sout = "parsing_error" /\ result = "none" /\ return_code = 0

\* C34: when a request has ended, by a response or by an exception, no tool
\* span is open any more: the spans that were still tracked have been ended
\* with status ERROR.
C34_NoSpanLeftOpen ==
    sphase \in {"returned", "raised"} => \A c \in CallIds : span[c] # "open"

\* C35, as stated: while the stream is read, tool_tracking holds exactly the
\* call_ids that were started and not completed since.
C35_MapIsStartedNotCompleted ==
    sphase = "reading" => DOMAIN tool_tracking = streamOpen

\* what holds of C35 for a request that is alone on the supervisor: while the
\* stream is read, tool_tracking holds exactly the call_ids that were started
\* with a recognised tool type and not completed since; a completed line for an
\* id that is not tracked changes nothing and does not end the loop.
C35_MapIsNamedStartedNotCompleted ==
    /\ [](sphase = "reading" => DOMAIN tool_tracking = knownOpen)
    /\ [][nStray' = nStray + 1
            => (tool_tracking' = tool_tracking /\ span' = span /\ sphase' = "reading")]_vars

\* a completed line for an untracked id and a started line without a tool type
\* have been read, a call is tracked, and the loop reads on
C35_Witness ==
    /\ sphase = "reading"
    /\ nStray > 0
    /\ knownOpen # {}
    /\ streamOpen # knownOpen

\* ================================================================ claims (SpecSdk)
\* C13: when the collected messages hold a result with is_error = true,
\* execute_command ends by raising a ClaudeProcessError made from that result,
\* whatever the stream or the client raised after it, and returns no response.
C13_ResultErrorRaised ==
    (sdk_phase \in {"raised", "returned"} /\ HasErrorResult(messages))
        => sdk_out = "error_from_result"

\* C21: the session_id of the response a supervisor produces is the session id
\* the agent reported in its result message, never a generated or substituted
\* one.
C21_SessionIdRoundTrip ==
    sdk_phase = "returned" =>
        \A i \in 1..Len(messages) :
            messages[i].type = "result"
                => sdk_response.session_id = messages[i].session_id

\* ============================================================ claims (SpecMonitor)
\* C14: a call of the monitor or of the hook is denied by the lists exactly
\* when the allow-list is non-empty and lacks the tool or the deny-list holds
\* it; an empty list denies nothing, and the lists decide whatever the input
\* is, a null input included (no inspection of the input comes first).
C14_ListsDecideFirst ==
    last.op \in {"validate", "hook"} =>
        LET denied == \/ conf.allowed # {} /\ last.tool \notin conf.allowed
                      \/ last.tool \in conf.disallowed IN
        /\ denied <=> last.verdict \in {"not_allowed", "disallowed"}
        /\ (conf.allowed # {} /\ last.tool \notin conf.allowed)
               => last.verdict = "not_allowed"

C14_Witness ==
    /\ last.op = "validate" /\ last.input.null
    /\ conf.allowed = {} /\ last.tool \in conf.disallowed
    /\ last.verdict = "disallowed"

\* C15: a shell tool call passes validation, by the monitor or by the hook,
\* only if it carries a command and the lower-cased command contains none of
\* sudo, rm -rf /, chmod 777 /, mkfs, dd if=, > /dev/sd and the fork bomb.
C15_ShellPassesOnlyIfHarmless ==
    (last.op \in {"validate", "hook"} /\ last.tool \in ShellTools
        /\ last.verdict = "ok")
    => /\ last.input.command # <<>>
       /\ \A pat \in {<<"sudo">>, <<"rm", "-rf", "/">>, <<"chmod", "777", "/">>,
                        <<"mkfs">>, <<"dd", "if=">>, <<">", "/dev/sd">>,
                        <<ForkBomb>>} :
              ~Contains(Lower(last.input.command), pat)

C17_EveryCallCounted == TotalCalls = ncalls

\* C17 as amended: every allowed validate call adds one to tool_usage of its
\* tool and a denied call adds nothing, so the total of tool_usage is the
\* number of allowed calls made since the last reset.
C17_AllowedCallsCounted ==
    /\ TotalCalls = ncalls - ndenied
    /\ (last.op = "validate" /\ last.verdict = "ok") => tool_usage[last.tool] >= 1

C17_Witness ==
    /\ last.op = "validate" /\ last.verdict = "ok"
    /\ ncalls = 2 /\ ndenied = 1 /\ TotalCalls = 1

\* C18: every denial of validate_tool_call appends exactly one record to
\* security_violations, so their number is the number of denied calls made
\* since the last reset.
C18_EveryDenialRecorded == security_violations = ndenied

\* ============================================================ claims (SpecSession)
\* C19: every response run_command returns with is_error = false carries a
\* non-empty session_id.
C19_SessionIdNonEmpty ==
    (rpc = "returned" /\ ~response.is_error) => response.session_id # ""

\* the agent's result carried no session_id; the response has the temporary one
C19_Witness ==
    /\ rpc = "returned" /\ ~response.is_error
    /\ response.session_id = "temp_1" /\ held_as = "temp_1"

\* C20: once run_command has committed the session, response.session_id is
\* the id under which the Session Store holds that session, for a new session
\* (rekeyed to the agent-issued id) and for a continued one.
C20_ResponseIdIsStoredId ==
    rpc = "returned" => (response.session_id = held_as /\ held_as \in sessions)

\* C36: the supervisor is invoked with continue_session = TRUE exactly when the
\* caller supplied a session_id and the session of the store is not new; a new
\* session passes no id, so a temporary (temp_) id is never handed to the agent.
C36_NoTemporaryIdToAgent ==
    rpc = "executing" =>
        /\ agent_call.continue_session
              = (agent_call.given # "" /\ ~session.is_new_session)
        /\ session.is_new_session => agent_call.session_id = ""
        /\ ~IsTemporary(agent_call.session_id)

\* ============================================================ claims (SpecContinue)
\* C22: continue_session returns None and starts no run when the user has no
\* non-temporary session whose project path is the working directory;
\* otherwise it starts exactly one run, with the id of a matching session that
\* no matching session was used later than.
C22_ContinuesLatest ==
    cs_out # "none" =>
        LET matching == {x \in user_sessions :
                            /\ x.project_path = cs_wd
                            /\ x.session_id \notin {"temp_1", "temp_2", "temp_3"}} IN
        IF matching = {}
        THEN cs_out = "None" /\ cs_runs = <<>>
        ELSE /\ cs_out = "response" /\ Len(cs_runs) = 1
             /\ \E x \in matching :
                    /\ x.session_id = cs_runs[1]
                    /\ \A y \in matching : y.last_used <= x.last_used

\* two matching sessions used at different instants and a temporary session
\* of the same directory used after both
C22_Witness ==
    /\ cs_out = "response" /\ cs_wd = "wd1" /\ cs_runs = <<"B">>
    /\ user_sessions = {[session_id |-> "A", project_path |-> "wd1", last_used |-> 1],
                        [session_id |-> "B", project_path |-> "wd1", last_used |-> 2],
                        [session_id |-> "temp_1", project_path |-> "wd1",
                         last_used |-> 3]}

\* ============================================================== claims (SpecBuffer)
\* C23 as stated: the tools_used of a successful request lists every
\* tool_call.started event of its stream, one entry each, in arrival order,
\* however many messages the child emitted.
C23_ToolsUsedListsAll ==
    b_phase = "returned" =>
        LET started == SelectSeq(emitted,
                           LAMBDA m : m.type = "tool_call" /\ m.subtype = "started") IN
        /\ Len(tools_used) = Len(started)
        /\ \A i \in 1..Len(started) : tools_used[i] = started[i].tool

\* C23 as amended: the tools_used of a successful request lists the
\* tool_call.started events among the last max_message_buffer messages of its
\* stream, one entry each, in arrival order; earlier ones are not listed.
C23_ToolsUsedListsRetained ==
    b_phase = "returned" =>
        LET n == Len(emitted)
            kept == SubSeq(emitted,
                           IF n > MaxMessageBuffer THEN n - MaxMessageBuffer + 1 ELSE 1, n)
            started == SelectSeq(kept,
                           LAMBDA m : m.type = "tool_call" /\ m.subtype = "started") IN
        /\ Len(tools_used) = Len(started)
        /\ \A i \in 1..Len(started) : tools_used[i] = started[i].tool

\* a started call, then as many messages as the buffer holds: the call is lost
C23_Witness ==
    /\ b_phase = "returned" /\ Len(emitted) = MaxMessageBuffer + 1
    /\ emitted[1].type = "tool_call" /\ emitted[1].subtype = "started"
    /\ emitted[2].type = "tool_call" /\ emitted[2].subtype = "started"
    /\ tools_used = <<emitted[2].tool>>

\* C24: the parser never retains more than max_message_buffer messages,
\* however many the child emits: the buffer holds the latest ones, the oldest
\* having been dropped for each new one once the bound was reached.
C24_BufferBounded ==
    /\ Len(message_buffer) <= MaxMessageBuffer
    /\ message_count = Len(emitted)
    /\ LET n == Len(emitted) IN
       message_buffer =
           SubSeq(emitted, IF n > MaxMessageBuffer THEN n - MaxMessageBuffer + 1 ELSE 1, n)

C24_Witness ==
    /\ message_count = MaxMessageBuffer + 1
    /\ Len(message_buffer) = MaxMessageBuffer
    /\ message_buffer[1] = emitted[2]

\* ============================================================ claims (SpecCallback)
\* C25: for every command name without ":", parsing the callback data built
\* for the command gives the name back unchanged, and the router, splitting
\* the same data at its first ":", gets action "pcmd" with the name as param.
C25_CallbackDataRoundTrip ==
    (cb_phase = "pressed" /\ \A i \in 1..Len(cmd_name) : cmd_name[i] # ":") =>
        /\ parsed = [some |-> TRUE, str |-> cmd_name]
        /\ routed.action = <<"p", "c", "m", "d">>
        /\ routed.param = [some |-> TRUE, str |-> cmd_name]

C25_Witness ==
    /\ cb_phase = "pressed" /\ cmd_name = <<"a", "-", "p">>
    /\ parsed.str = cmd_name /\ routed.param.str = cmd_name

\* ============================================================ claims (SpecProgress)
\* C27, as stated: the progress message is edited only when the rendered text
\* differs from the last edited text and either the update is a tool result, a
\* final result or an error, or the throttle interval of the mode (0.8 s in
\* command mode, 1.5 s in free-text mode) has passed since the last edit.
C27_EditsOnlyImportantOrDue ==
    handled.edit # "none" =>
        /\ handled.differs
        /\ \/ handled.type \in {"tool_result", "result", "error"}
           \/ handled.since >= (IF mode = "command" THEN CommandInterval ELSE UpdateInterval)

\* C27, amended: the edit needs a non-empty text that differs from the last
\* edited one and, in free-text mode, a tool result or an error or 1.5 s since
\* the last edit; in command mode, any update other than thinking and
\* assistant, or 0.8 s since the last edit.
C27_EditsOnlyUnthrottledOrDue ==
    handled.edit # "none" =>
        /\ handled.differs /\ handled.text # <<>>
        /\ mode = "text" =>
              \/ handled.type \in {"tool_result", "error"}
              \/ handled.since >= UpdateInterval
        /\ mode = "command" =>
              \/ handled.type \notin {"thinking", "assistant"}
              \/ handled.since >= CommandInterval

\* a tool start is rendered in command mode less than 0.8 s after an earlier edit
C27_Witness ==
    /\ mode = "command"
    /\ handled.type = "tool_call" /\ handled.edit = "done"
    /\ handled.since < CommandInterval
    /\ last_update_time = now /\ now > StartTime

\* ============================================================ claims (SpecDelivery)
\* C28: the updates of one request reach the progress renderer in the order the
\* child wrote their lines, and the invocation for one update is over before
\* the next update is delivered.
C28_DeliveredInOrder ==
    /\ \A a, b \in 1..Len(delivered) : a < b => delivered[a] < delivered[b]
    /\ \A i, j \in 1..MaxLines :
          (stage[i] \in {"validate", "render"} /\ stage[j] \in {"validate", "render"})
              => i = j
    /\ \A a \in 1..Len(delivered) :
          stage[delivered[a]] = "render" => a = Len(delivered)

\* two updates were delivered, the second while further lines were waiting
C28_Witness ==
    /\ Len(delivered) >= 2
    /\ stage[delivered[Len(delivered)]] = "render"
    /\ stdout # <<>>

\* ============================================================== claims (SpecCancel)
\* C31: graceful cancellation never raises, whether the process exited before
\* the call, exits between steps, or a signal cannot be delivered.
C31_CancelNeverRaises == g_pc # "raised"

\* the call returned after a failed interrupt, a terminate the child outlived
\* and a kill that found the process gone
C31_Witness ==
    /\ g_pc = "returned"
    /\ Len(attempts) = 4
    /\ attempts[1] = [signal |-> "int", outcome |-> "failed"]
    /\ attempts[2] = [signal |-> "term", outcome |-> "sent"]
    /\ attempts[3] = [signal |-> "term", outcome |-> "timeout"]
    /\ attempts[4] = [signal |-> "kill", outcome |-> "lookup"]

\* ================================================================ claims (SpecUser)
\* C33: once the cancellation flag of a user is set while the user's child is
\* streaming, execute_command ends with CancelledError, not with a response, a
\* process error or a parsing error.
C33_FlaggedRunEndsCancelled ==
    \A p \in flagged : u_out[p] \in {"none", "cancelled"}

\* C40: kill_user_processes(u) untracks exactly the processes registered for u
\* when it was called: a process of another user, or one started for u while
\* it runs, stays in active_processes and in user_processes, and once it has
\* returned the flag of u is not set for a run that started after the call.
C40_KillUserExact ==
    /\ \A p \in Procs :
          (u_pc[p] \in {"streaming", "cancel", "ended"} /\ p \notin snapshotted)
              => (p \in sup_active /\ p \in Range(user_processes[u_user[p]]))
    /\ \A p \in Procs :
          (u_pc[p] = "streaming" /\ k_pc[u_user[p]] = "returned" /\ p \notin flagged)
              => cancelled_users[u_user[p]] # "true"

\* ============================================================ claims (SpecTracking)
\* C38: a step in which a request starts or ends leaves alone the tracked
\* entries and the spans of every other request that is reading its stream.
C38_TrackingPrivate ==
    [][\A r, q \in Requests :
          (r # q /\ t_pc'[r] # t_pc[r] /\ t_pc[q] = "streaming")
              => \A c \in CallIds :
                    /\ (<<q, c>> \in t_tracking') = (<<q, c>> \in t_tracking)
                    /\ t_span'[q][c] = t_span[q][c]]_vars

\* ======================================================= claims (SpecConversations)
\* C39: a step in which a run fails or is cancelled leaves the Session Store
\* without an update for the run and leaves every stored conversation as it was.
C39_FailedRunKeepsSessions ==
    [][\A r \in SdkRuns :
          (a_pc[r] = "running" /\ a_pc'[r] \in {"failed", "cancelled"})
              => /\ r \notin store_updated'
                 /\ \A id \in DOMAIN active_sessions :
                       /\ id \in DOMAIN active_sessions'
                       /\ active_sessions'[id] = active_sessions[id]]_vars

====
